---- MODULE Spec2Model ----
(***************************************************************************)
(* The HTLC lifecycle of zcash-htlc-builder: the store (zcash_htlcs,       *)
(* htlc_operations, relayer_utxos), the coordinator (create_htlc,          *)
(* redeem_htlc, refund_htlc of ZcashHTLCClient) and the relayer loop       *)
(* (AutomatedRelayer::run and its three processing steps).                 *)
(*                                                                         *)
(* Abstractions, stated once:                                              *)
(*  - an HTLC id is the row's position in the table (row i is the i-th     *)
(*    inserted, so ORDER BY created_at ASC is the order of ids);           *)
(*  - amounts are zatoshis (the u64 that parse_amount returns);            *)
(*  - hex strings, SHA-256 and transaction ids are drawn from small sets   *)
(*    on which the hash is injective;                                      *)
(*  - the node is opaque: send_raw_transaction either returns a txid or    *)
(*    fails, and getblockcount returns the variable height;                *)
(*  - created_at / updated_at are not kept.                                *)
(***************************************************************************)
EXTENDS Integers, Sequences, FiniteSets, TLC

\* ------------------------------------------------------------------ bounds
MaxHtlcs == 2
MaxOps == 3
MaxHeight == 3
MaxTxPerBatch == 1
MaxUtxos == 5
MaxConfirmations == 1
MaxStepHtlcs == 4
MaxStepOps == 6
MaxRedeems == 1
MaxFaults == 2

\* --------------------------------------------------------------- constants
\* HTLCState as i16 (models/mod.rs)
Pending == 0
Locked == 1
Redeemed == 2
Refunded == 3
Expired == 4
Failed == 5

\* builder.rs
DUST_THRESHOLD == 546
DEFAULT_FEE_RATE == 1000

\* relayer.rs: network_fee_zec, parsed with unwrap_or(0.0001), in zatoshis
NetworkFee == 10000

\* SQL NULL / Option::None, for the string columns and for the integer columns
NULL == "NULL"
None == -1

VARIABLES
    htlcs,      \* table zcash_htlcs: a sequence of rows, row i has id i
    ops,        \* table htlc_operations, in insertion order
    utxos,      \* table relayer_utxos of the hot wallet
    height,     \* the node's block count
    pc,         \* the relayer loop's position in run()
    batch,      \* the rows the relayer's current step loaded and has yet to process
    ret,        \* the coordinator call made by the last step, with what it returned
    calls,      \* the coordinator call each process has in progress, step by step
    chain,      \* the transactions the node answered with a txid
    max_tx_per_batch,   \* the relayer's configuration: the limit of its queries
    faults      \* how many calls on the store and on the node failed so far

vars == <<htlcs, ops, utxos, height, pc, batch, ret, calls, chain, max_tx_per_batch, faults>>

\* ------------------------------------------------------------ input domains
SignedTxs == {"tx_any"}

\* hex::decode succeeds: hex digits of either case
hex_ok(s) == s \in {"aa", "AA", "bb"}

\* hex::decode of a string hex_ok accepts: the bytes, whatever the case of the
\* digits
hex_decode(s) == IF s \in {"aa", "AA"} THEN <<"0xaa">> ELSE <<"0xbb">>

\* hex::encode(Sha256(hex::decode(s))): lowercase hex
sha256_hex(s) == IF hex_decode(s) = <<"0xaa">> THEN "ha" ELSE "hb"

\* verify_secret that decodes the secret and forgets to compare the hash
verify_secret_hex_only(secret, hash_lock) == hex_ok(secret)

\* script.rs verify_secret
verify_secret(secret, hash_lock) ==
    IF ~hex_ok(secret) THEN FALSE
    ELSE sha256_hex(secret) = hash_lock

\* ------------------------------------------------------------------- store
\* Database::create_htlc: NewZcashHTLC carries no txid, vout, secret:
\* those columns are NULL in the inserted row
db_create_htlc(H, htlc) ==
    Append(H, [state |-> htlc.state,
               txid |-> None,
               vout |-> None,
               secret |-> NULL,
               signed_redeem_tx |-> NULL,
               hash_lock |-> htlc.hash_lock,
               timelock |-> htlc.timelock,
               amount |-> htlc.amount])

HasRow(H, id) == id \in 1..Len(H)

\* Database::get_htlc_by_id, on a row that exists
get_htlc_by_id(H, id) == H[id]

\* update_htlc_txid without its txid and vout columns: only the state is set
update_htlc_txid_state_only(H, id, txid, vout) ==
    IF HasRow(H, id) THEN [H EXCEPT ![id] = [@ EXCEPT !.state = Locked]] ELSE H

update_htlc_txid(H, id, txid, vout) ==
    IF HasRow(H, id)
    THEN [H EXCEPT ![id] = [@ EXCEPT !.txid = txid, !.vout = vout, !.state = Locked]]
    ELSE H

update_htlc_state(H, id, state) ==
    IF HasRow(H, id) THEN [H EXCEPT ![id] = [@ EXCEPT !.state = state]] ELSE H

update_htlc_secret(H, id, secret) ==
    IF HasRow(H, id) THEN [H EXCEPT ![id] = [@ EXCEPT !.secret = secret]] ELSE H

store_signed_redeem_tx(H, id, signed_tx) ==
    IF HasRow(H, id) THEN [H EXCEPT ![id] = [@ EXCEPT !.signed_redeem_tx = signed_tx]] ELSE H

\* Database::create_operation: NewHTLCOperation carries id, htlc_id,
\* operation_type, raw_tx_hex and status only
create_operation(O, op) ==
    Append(O, [htlc_id |-> op.htlc_id,
               operation_type |-> op.operation_type,
               raw_tx_hex |-> op.raw_tx_hex,
               signed_tx_hex |-> NULL,
               txid |-> None,
               status |-> op.status,
               error_message |-> NULL])

update_operation_broadcast(O, op_id, txid) ==
    IF op_id \in 1..Len(O)
    THEN [O EXCEPT ![op_id] = [@ EXCEPT !.txid = txid, !.status = "broadcast"]]
    ELSE O

update_operation_failed(O, op_id, error) ==
    IF op_id \in 1..Len(O)
    THEN [O EXCEPT ![op_id] = [@ EXCEPT !.status = "failed", !.error_message = error]]
    ELSE O

\* what the relayer keeps of a loaded row: its id and its signed_redeem_tx
Loaded(H, id) == [id |-> id, signed_redeem_tx |-> H[id].signed_redeem_tx]

\* WHERE state = Pending AND txid IS NULL ORDER BY created_at ASC LIMIT limit
RECURSIVE PendingFrom(_, _, _)
PendingFrom(H, from, limit) ==
    IF from > Len(H) \/ limit = 0 THEN <<>>
    ELSE IF H[from].state = Pending /\ H[from].txid = None
         THEN <<Loaded(H, from)>> \o PendingFrom(H, from + 1, limit - 1)
         ELSE PendingFrom(H, from + 1, limit)

get_pending_htlcs_for_creation(H, limit) == PendingFrom(H, 1, limit)

\* WHERE state = Locked AND signed_redeem_tx IS NOT NULL ORDER BY created_at ASC LIMIT limit
RECURSIVE SignedFrom(_, _, _)
SignedFrom(H, from, limit) ==
    IF from > Len(H) \/ limit = 0 THEN <<>>
    ELSE IF H[from].state = Locked /\ H[from].signed_redeem_tx # NULL
         THEN <<Loaded(H, from)>> \o SignedFrom(H, from + 1, limit - 1)
         ELSE SignedFrom(H, from + 1, limit)

get_htlcs_with_signed_redeem_tx(H, limit) == SignedFrom(H, 1, limit)

\* WHERE state = Locked AND timelock < current_block
RECURSIVE ExpiredFrom(_, _, _)
ExpiredFrom(H, current_block, from) ==
    IF from > Len(H) THEN <<>>
    ELSE IF H[from].state = Locked /\ H[from].timelock < current_block
         THEN <<Loaded(H, from)>> \o ExpiredFrom(H, current_block, from + 1)
         ELSE ExpiredFrom(H, current_block, from + 1)

\* the query without its state filter: WHERE timelock < current_block
RECURSIVE PastTimelockFrom(_, _, _)
PastTimelockFrom(H, current_block, from) ==
    IF from > Len(H) THEN <<>>
    ELSE IF H[from].timelock < current_block
         THEN <<Loaded(H, from)>> \o PastTimelockFrom(H, current_block, from + 1)
         ELSE PastTimelockFrom(H, current_block, from + 1)

get_expired_htlcs_any_state(H, current_block) == PastTimelockFrom(H, current_block, 1)

get_expired_htlcs(H, current_block) == ExpiredFrom(H, current_block, 1)

\* the filter without its confirmations condition
Unspent_unconfirmed(U) == {i \in 1..Len(U) : ~U[i].spent}

\* relayer_utxos: WHERE spent = false AND confirmations >= 1 ORDER BY amount DESC,
\* as the sequence of the rows' positions in the table
Unspent(U) == {i \in 1..Len(U) : ~U[i].spent /\ U[i].confirmations >= 1}

RECURSIVE ByAmountDesc(_, _)
ByAmountDesc(U, S) ==
    IF S = {} THEN <<>>
    ELSE LET top == CHOOSE i \in S :
                        \A j \in S : U[i].amount > U[j].amount
                                     \/ (U[i].amount = U[j].amount /\ i <= j)
         IN <<top>> \o ByAmountDesc(U, S \ {top})

get_unspent_relayer_utxos(U) == ByAmountDesc(U, Unspent(U))

\* the row of relayer_utxos has the key (txid, vout)
HasKey(utxo, txid, vout) == utxo.txid = txid /\ utxo.vout = vout

\* INSERT .. ON CONFLICT (txid, vout) DO UPDATE: the row is written again, unspent
create_relayer_utxo_upsert(U, utxo) ==
    LET row == [txid |-> utxo.txid, vout |-> utxo.vout, amount |-> utxo.amount,
                confirmations |-> utxo.confirmations, spent |-> FALSE,
                spent_in_tx |-> None]
    IN  IF \E i \in 1..Len(U) : HasKey(U[i], utxo.txid, utxo.vout)
        THEN [i \in 1..Len(U) |->
                 IF HasKey(U[i], utxo.txid, utxo.vout) THEN row ELSE U[i]]
        ELSE Append(U, row)

\* INSERT .. ON CONFLICT (txid, vout) DO NOTHING; spent and spent_in_tx are not
\* among the inserted columns
create_relayer_utxo(U, utxo) ==
    IF \E i \in 1..Len(U) : HasKey(U[i], utxo.txid, utxo.vout) THEN U
    ELSE Append(U, [txid |-> utxo.txid, vout |-> utxo.vout, amount |-> utxo.amount,
                    confirmations |-> utxo.confirmations, spent |-> FALSE,
                    spent_in_tx |-> None])

\* UPDATE .. SET spent = true, spent_in_tx WHERE txid AND vout
mark_utxo_spent(U, txid, vout, spent_in_tx) ==
    [i \in 1..Len(U) |->
        IF HasKey(U[i], txid, vout)
        THEN [U[i] EXCEPT !.spent = TRUE, !.spent_in_tx = spent_in_tx]
        ELSE U[i]]

\* UPDATE .. SET confirmations WHERE txid AND vout
update_utxo_confirmations(U, txid, vout, confirmations) ==
    [i \in 1..Len(U) |->
        IF HasKey(U[i], txid, vout)
        THEN [U[i] EXCEPT !.confirmations = confirmations]
        ELSE U[i]]

\* relayer.rs: for utxo in selected_utxos { mark_utxo_spent(txid, vout, result.txid) }
RECURSIVE mark_all_spent(_, _, _)
mark_all_spent(U, selected, spent_in_tx) ==
    IF selected = <<>> THEN U
    ELSE mark_all_spent(mark_utxo_spent(U, U[Head(selected)].txid, U[Head(selected)].vout,
                                        spent_in_tx),
                        Tail(selected), spent_in_tx)

\* ----------------------------------------------------- transaction builder
RECURSIVE Sum(_)
Sum(amounts) == IF amounts = <<>> THEN 0 ELSE Head(amounts) + Sum(Tail(amounts))

estimate_tx_size(num_inputs, num_outputs) == 10 + (num_inputs * 180) + (num_outputs * 34)

\* (estimated_size as u64 * DEFAULT_FEE_RATE) / 1000
fee_for(num_inputs, num_outputs) ==
    (estimate_tx_size(num_inputs, num_outputs) * DEFAULT_FEE_RATE) \div 1000

\* bs58 decoding, the length check and the prefix match of address_to_script_pubkey
address_ok(address) == address = "t_ok"

\* signer.rs parse_privkey
privkey_ok(key) == key \in {"k_ok", "k_ok2"}

\* hex::decode(hash_lock) gives 32 bytes (build_htlc_script)
hash_lock_ok(hash_lock) == hash_lock \in {"ha", "HA", "hb"}

\* the dust check with <= in place of <
amount_too_small_inclusive(amount_sat) == amount_sat <= DUST_THRESHOLD

\* build_htlc_tx: if amount_sat < DUST_THRESHOLD { return Err(AmountTooSmall) }
amount_too_small(amount_sat) == amount_sat < DUST_THRESHOLD

\* the change computed without the fee
change_without_fee(total_input, amount_sat, fee) == total_input - amount_sat

\* build_htlc_tx: let change = total_input - amount_sat - fee
change_of(total_input, amount_sat, fee) == total_input - amount_sat - fee

\* the change test with >= in place of >
emits_change_at_dust(change) == change >= DUST_THRESHOLD

\* build_htlc_tx: if change > DUST_THRESHOLD { outputs.push(..) }
emits_change(change) == change > DUST_THRESHOLD

\* build_htlc_tx, on the parsed amount and the parsed amounts of the UTXOs:
\* the error or Ok, the outputs of the transaction, the fee it computed once
\* it got that far, and the fields of InsufficientFunds
build_htlc_tx(params, utxo_amounts, change_address) ==
    LET amount_sat == params.amount
        total_input == Sum(utxo_amounts)
        fee == fee_for(Len(utxo_amounts), 2)
        change == change_of(total_input, amount_sat, fee)
        htlc_out == <<[value |-> amount_sat, to |-> "p2sh"]>>
        Built(err, outputs) ==
            [err |-> err, outputs |-> outputs, required |-> None, available |-> None,
             fee |-> IF err \in {"AmountTooSmall", "ScriptError"} THEN None ELSE fee]
    IN  IF amount_too_small(amount_sat) THEN Built("AmountTooSmall", <<>>)
        ELSE IF ~hash_lock_ok(params.hash_lock) THEN Built("ScriptError", <<>>)
        ELSE IF total_input < amount_sat + fee
             THEN [Built("InsufficientFunds", <<>>)
                      EXCEPT !.required = amount_sat + fee, !.available = total_input]
        ELSE IF emits_change(change)
             THEN IF address_ok(change_address)
                  THEN Built("Ok", htlc_out \o <<[value |-> change, to |-> "change"]>>)
                  ELSE Built("InvalidAddress", <<>>)
        ELSE Built("Ok", htlc_out)

\* build_redeem_tx and build_refund_tx: one input, one output of amount - fee
build_spend_tx(htlc_amount, to_address) ==
    LET fee == fee_for(1, 1)
    IN  IF htlc_amount <= fee THEN [err |-> "AmountTooSmall", value |-> 0]
        ELSE IF ~address_ok(to_address) THEN [err |-> "InvalidAddress", value |-> 0]
        ELSE [err |-> "Ok", value |-> htlc_amount - fee]

\* Unsigned integers of 32 and 64 bits, as 2 and 4 digits of 16 bits, most
\* significant first: u64 of a small number, the cast `as u32`, and a u32
\* widened to u64.
U64(n) == <<0, 0, n \div 65536, n % 65536>>
as_u32(x) == SubSeq(x, 3, 4)
u32_as_u64(x) == <<0, 0>> \o x

\* the cast `as i64` of a u64 keeps the 64 bits: the same digits, read as a
\* negative number when the first digit is 32768 or more
as_i64(x) == x

\* build_htlc_script: push_int(params.timelock as i64), the number the redeem
\* script compares with the spending transaction's lock time
script_timelock(timelock) == as_i64(timelock)

\* build_refund_tx: Sequence(0xFFFFFFFF) on the input
SEQUENCE_FINAL == <<65535, 65535>>

\* build_refund_tx: the nSequence of the input
refund_sequence == SEQUENCE_FINAL

\* build_refund_tx: the transaction it returns, with the nSequence of its one
\* input and its lock_time, PackedLockTime(timelock as u32); timelock is a u64
build_refund_tx(htlc_amount, timelock, refund_address) ==
    LET spend == build_spend_tx(htlc_amount, refund_address)
    IN  IF spend.err # "Ok"
        THEN [err |-> spend.err, value |-> 0, sequence |-> <<>>, lock_time |-> <<>>]
        ELSE [err |-> "Ok", value |-> spend.value,
              sequence |-> refund_sequence, lock_time |-> as_u32(timelock)]

\* Scripts are sequences of items, each a data push or an opcode; bytes are
\* sequences of tokens.
push_slice(data) == [op |-> "PUSH", data |-> data]
push_opcode(op) == [op |-> op, data |-> <<>>]

RECURSIVE as_bytes(_)
\* Script::as_bytes: the items one after the other, a push as its length
\* prefix and its data, an opcode as its byte
as_bytes(script) ==
    IF script = <<>> THEN <<>>
    ELSE LET item == Head(script)
         IN  (IF item.op = "PUSH" THEN <<"PUSHBYTES">> \o item.data ELSE <<item.op>>)
                 \o as_bytes(Tail(script))

\* build_htlc_script: the redeem script of an HTLC
htlc_script ==
    <<push_opcode("OP_IF"), push_opcode("OP_SHA256"), push_slice(<<"hash_lock">>),
      push_opcode("OP_EQUALVERIFY"), push_slice(<<"recipient_pubkey">>),
      push_opcode("OP_CHECKSIG"), push_opcode("OP_ELSE"), push_slice(<<"timelock">>),
      push_opcode("OP_CLTV"), push_opcode("OP_DROP"), push_slice(<<"refund_pubkey">>),
      push_opcode("OP_CHECKSIG"), push_opcode("OP_ENDIF")>>

\* sign_input: the DER signature of the key over the input, followed by the
\* SIGHASH_ALL byte
sign_input(input_index, privkey) == <<"der", privkey, "input", ToString(input_index), "0x01">>

\* PublicKey::from_secret_key(..).serialize()
pubkey_of(privkey) == <<"pubkey", privkey>>

\* build_redeem_input, on a secret that decodes
build_redeem_input(secret, signature) ==
    <<push_slice(signature), push_slice(hex_decode(secret)), push_opcode("OP_TRUE")>>

\* build_refund_input
build_refund_input(signature) == <<push_slice(signature), push_opcode("OP_FALSE")>>

\* sign_htlc_redeem: the error or Ok, and the script_sig set on the input
sign_htlc_redeem(input_index, redeem_script, secret, privkey_hex) ==
    IF ~privkey_ok(privkey_hex) THEN [err |-> "InvalidPrivateKey", script_sig |-> <<>>]
    ELSE IF ~hex_ok(secret) THEN [err |-> "ScriptError", script_sig |-> <<>>]
    ELSE LET signature == sign_input(input_index, privkey_hex)
             script_sig == build_redeem_input(secret, signature)
         IN  [err |-> "Ok",
              script_sig |-> <<push_slice(as_bytes(script_sig)),
                               push_slice(as_bytes(redeem_script))>>]

\* sign_htlc_refund: the error or Ok, and the script_sig set on the input
sign_htlc_refund(input_index, redeem_script, privkey_hex) ==
    IF ~privkey_ok(privkey_hex) THEN [err |-> "InvalidPrivateKey", script_sig |-> <<>>]
    ELSE LET signature == sign_input(input_index, privkey_hex)
             script_sig == build_refund_input(signature)
         IN  [err |-> "Ok",
              script_sig |-> <<push_slice(as_bytes(script_sig)),
                               push_slice(as_bytes(redeem_script))>>]

\* the cardinality check without the count of the private keys
mismatched_scripts_only(num_inputs, num_scripts, num_keys) == num_inputs # num_scripts

\* sign_htlc_creation: tx.input.len() != input_scripts.len()
\*                      || tx.input.len() != private_keys.len()
mismatched(num_inputs, num_scripts, num_keys) ==
    num_inputs # num_scripts \/ num_inputs # num_keys

\* sign_htlc_creation: the cardinality check, then parse_privkey per input
sign_htlc_creation(num_inputs, num_scripts, private_keys) ==
    IF mismatched(num_inputs, num_scripts, Len(private_keys)) THEN "MismatchedInputs"
    ELSE IF \E i \in 1..Len(private_keys) : ~privkey_ok(private_keys[i])
         THEN "InvalidPrivateKey"
    ELSE "Ok"

\* address_to_script_pubkey, on an address given by what its characters are:
\* whether they are base58, how many bytes they decode to, the 2 prefix bytes,
\* the 20 bytes after them, and whether the last 4 bytes are the checksum of
\* the bytes before them. bs58::decode(address).into_vec() decodes and checks
\* no checksum.
address_to_script_pubkey(address) ==
    IF ~address.base58 THEN [err |-> "InvalidAddress", script |-> <<>>]
    ELSE IF address.len < 26 THEN [err |-> "InvalidAddress", script |-> <<>>]
    ELSE IF address.prefix = "p2pkh_prefix"
         THEN [err |-> "Ok",
               script |-> <<push_opcode("OP_DUP"), push_opcode("OP_HASH160"),
                            push_slice(address.hash160), push_opcode("OP_EQUALVERIFY"),
                            push_opcode("OP_CHECKSIG")>>]
    ELSE IF address.prefix = "p2sh_prefix"
         THEN [err |-> "Ok",
               script |-> <<push_opcode("OP_HASH160"), push_slice(address.hash160),
                            push_opcode("OP_EQUAL")>>]
    ELSE [err |-> "UnsupportedAddressType", script |-> <<>>]

\* ZcashNetwork::p2pkh_prefix and p2sh_prefix: the two bytes an address of the
\* network begins with
p2pkh_prefix(network) == IF network = "mainnet" THEN <<28, 184>> ELSE <<29, 37>>

\* the P2SH prefix taken from the P2PKH one
p2sh_prefix_of_p2pkh(network) == p2pkh_prefix(network)

p2sh_prefix(network) == IF network = "mainnet" THEN <<28, 189>> ELSE <<28, 186>>

\* hash160::Hash::hash(data): 20 bytes, each one byte of the hash of data
hash160(data) == [k \in 1..20 |-> [hash160 |-> data, byte |-> k]]

\* double_sha256_checksum(data): 32 bytes
double_sha256_checksum(data) == [k \in 1..32 |-> [sha256d |-> data, byte |-> k]]

\* bs58::encode(bytes).into_string() and bs58::decode(address).into_vec(): the
\* string is written as the bytes it stands for, a string with a character
\* outside the alphabet as no bytes
bs58_encode(bytes) == [bs58 |-> TRUE, bytes |-> bytes]
bs58_decode(address) == address.bytes

\* build_htlc_script on parameters that decode: the redeem script
build_htlc_script(params) ==
    <<push_opcode("OP_IF"), push_opcode("OP_SHA256"),
      push_slice(<<"hash_lock", params.hash_lock>>),
      push_opcode("OP_EQUALVERIFY"), push_slice(<<"pubkey", params.recipient_pubkey>>),
      push_opcode("OP_CHECKSIG"), push_opcode("OP_ELSE"),
      push_slice(<<"int", ToString(params.timelock)>>),
      push_opcode("OP_CLTV"), push_opcode("OP_DROP"),
      push_slice(<<"pubkey", params.refund_pubkey>>),
      push_opcode("OP_CHECKSIG"), push_opcode("OP_ENDIF")>>

\* script_to_p2sh_address: prefix, script hash and the first 4 bytes of the
\* checksum of the two, in base58
script_to_p2sh_address(network, script) ==
    LET address_bytes == p2sh_prefix(network) \o hash160(as_bytes(script))
    IN  bs58_encode(address_bytes \o SubSeq(double_sha256_checksum(address_bytes), 1, 4))

\* p2sh_script_pubkey: OP_HASH160 <script hash> OP_EQUAL
p2sh_script_pubkey(script) ==
    <<push_opcode("OP_HASH160"), push_slice(hash160(as_bytes(script))),
      push_opcode("OP_EQUAL")>>

\* address_to_script_pubkey of a network on an address string: what it reads
\* of the decoded bytes, prefix = decoded[0..2] against the network's two
\* prefixes and hash160 = decoded[2..22]
address_read(network, address) ==
    LET decoded == bs58_decode(address)
        long == Len(decoded) >= 26
    IN  [base58 |-> address.bs58,
         len |-> Len(decoded),
         prefix |-> IF ~long THEN "other"
                    ELSE IF SubSeq(decoded, 1, 2) = p2pkh_prefix(network) THEN "p2pkh_prefix"
                    ELSE IF SubSeq(decoded, 1, 2) = p2sh_prefix(network) THEN "p2sh_prefix"
                    ELSE "other",
         hash160 |-> IF long THEN SubSeq(decoded, 3, 22) ELSE <<>>,
         checksum |-> IF long /\ SubSeq(decoded, 23, 26)
                                    = SubSeq(double_sha256_checksum(SubSeq(decoded, 1, 22)), 1, 4)
                      THEN "good" ELSE "bad"]

\* sign_htlc_creation: the script_sig of each input of the transaction it
\* returns, from the signature and the public key of the key at that index
creation_script_sigs(private_keys) ==
    [i \in 1..Len(private_keys) |->
        <<push_slice(sign_input(i - 1, private_keys[i])),
          push_slice(pubkey_of(private_keys[i]))>>]

\* the txid the node returns for the transaction that funds row id, redeems it
\* or refunds it
FundingTxid(id) == id
RedeemTxid(id) == 10 + id
RefundTxid(id) == 20 + id

\* ------------------------------------------------------------- coordinator
\* What a coordinator call leaves and returns: the two tables, the Result, the
\* id of the row inserted (create) and whether a transaction was built and
\* whether send_raw_transaction was called.
Outcome(H, O, result, built, sent) ==
    [htlcs |-> H, ops |-> O, result |-> result, built |-> built, sent |-> sent,
     current |-> None, required |-> None]

\* create_htlc marking the row Locked through update_htlc_state, the transaction
\* id left unrecorded
create_persist_by_state(H, O, htlc_id, operation_id, txid) ==
    [htlcs |-> update_htlc_state(H, htlc_id, Locked),
     ops |-> update_operation_broadcast(O, operation_id, txid)]

\* the store writes of create_htlc after a successful broadcast
create_persist(H, O, htlc_id, operation_id, txid) ==
    [htlcs |-> update_htlc_txid(H, htlc_id, txid, 0),
     ops |-> update_operation_broadcast(O, operation_id, txid)]

\* create_htlc with the row inserted before the transaction is signed
create_htlc_stores_before_signing(H, O, params, funding_utxos, change_address, funding_privkeys, sendOk) ==
    LET tx == build_htlc_tx(params, funding_utxos, change_address)
        signed == sign_htlc_creation(Len(funding_utxos), Len(funding_utxos),
                                     funding_privkeys)
        htlc_id == Len(H) + 1
        H1 == db_create_htlc(H, [state |-> Pending,
                                 hash_lock |-> params.hash_lock,
                                 timelock |-> params.timelock,
                                 amount |-> params.amount])
        O1 == create_operation(O, [htlc_id |-> htlc_id,
                                   operation_type |-> "create",
                                   raw_tx_hex |-> "funding_tx",
                                   signed_tx_hex |-> "funding_tx",
                                   status |-> "signed"])
        done == create_persist(H1, O1, htlc_id, Len(O1), FundingTxid(htlc_id))
    IN  IF tx.err # "Ok" THEN Outcome(H, O, tx.err, FALSE, FALSE)
        ELSE IF signed # "Ok" THEN Outcome(H1, O, signed, TRUE, FALSE)
        ELSE IF ~sendOk THEN Outcome(H1, O1, "RpcError", TRUE, TRUE)
        ELSE Outcome(done.htlcs, done.ops, "Ok", TRUE, TRUE)

\* lib.rs create_htlc; sendOk: whether send_raw_transaction returns a txid
create_htlc(H, O, params, funding_utxos, change_address, funding_privkeys, sendOk) ==
    LET tx == build_htlc_tx(params, funding_utxos, change_address)
        signed == sign_htlc_creation(Len(funding_utxos), Len(funding_utxos),
                                     funding_privkeys)
        htlc_id == Len(H) + 1
        H1 == db_create_htlc(H, [state |-> Pending,
                                 hash_lock |-> params.hash_lock,
                                 timelock |-> params.timelock,
                                 amount |-> params.amount])
        O1 == create_operation(O, [htlc_id |-> htlc_id,
                                   operation_type |-> "create",
                                   raw_tx_hex |-> "funding_tx",
                                   signed_tx_hex |-> "funding_tx",
                                   status |-> "signed"])
        done == create_persist(H1, O1, htlc_id, Len(O1), FundingTxid(htlc_id))
    IN  IF tx.err # "Ok" THEN Outcome(H, O, tx.err, FALSE, FALSE)
        ELSE IF signed # "Ok" THEN Outcome(H, O, signed, TRUE, FALSE)
        ELSE IF ~sendOk THEN Outcome(H1, O1, "RpcError", TRUE, TRUE)
        ELSE Outcome(done.htlcs, done.ops, "Ok", TRUE, TRUE)

\* the store writes of redeem_htlc after a successful broadcast
redeem_persist(H, O, htlc_id, secret, operation_id, redeem_txid) ==
    [htlcs |-> update_htlc_secret(update_htlc_state(H, htlc_id, Redeemed), htlc_id, secret),
     ops |-> update_operation_broadcast(O, operation_id, redeem_txid)]

\* redeem_htlc with the row written before the broadcast instead of after it
redeem_htlc_writes_first(H, O, htlc_id, secret, recipient_address, recipient_privkey, sendOk) ==
    IF ~HasRow(H, htlc_id) THEN Outcome(H, O, "HTLCNotFound", FALSE, FALSE)
    ELSE
    LET htlc == get_htlc_by_id(H, htlc_id)
        tx == build_spend_tx(htlc.amount, recipient_address)
        O1 == create_operation(O, [htlc_id |-> htlc_id,
                                   operation_type |-> "redeem",
                                   raw_tx_hex |-> "redeem_tx",
                                   signed_tx_hex |-> "redeem_tx",
                                   status |-> "signed"])
        done == redeem_persist(H, O1, htlc_id, secret, Len(O1), RedeemTxid(htlc_id))
    IN  IF ~verify_secret(secret, htlc.hash_lock)
        THEN Outcome(H, O, "InvalidSecret", FALSE, FALSE)
        ELSE IF htlc.txid = None \/ htlc.vout = None
        THEN Outcome(H, O, "HTLCNotLocked", FALSE, FALSE)
        ELSE IF tx.err # "Ok" THEN Outcome(H, O, tx.err, FALSE, FALSE)
        ELSE IF ~privkey_ok(recipient_privkey)
        THEN Outcome(H, O, "InvalidPrivateKey", TRUE, FALSE)
        ELSE IF ~sendOk THEN Outcome(done.htlcs, O1, "RpcError", TRUE, TRUE)
        ELSE Outcome(done.htlcs, done.ops, "Ok", TRUE, TRUE)

\* lib.rs redeem_htlc
redeem_htlc(H, O, htlc_id, secret, recipient_address, recipient_privkey, sendOk) ==
    IF ~HasRow(H, htlc_id) THEN Outcome(H, O, "HTLCNotFound", FALSE, FALSE)
    ELSE
    LET htlc == get_htlc_by_id(H, htlc_id)
        tx == build_spend_tx(htlc.amount, recipient_address)
        O1 == create_operation(O, [htlc_id |-> htlc_id,
                                   operation_type |-> "redeem",
                                   raw_tx_hex |-> "redeem_tx",
                                   signed_tx_hex |-> "redeem_tx",
                                   status |-> "signed"])
        done == redeem_persist(H, O1, htlc_id, secret, Len(O1), RedeemTxid(htlc_id))
    IN  IF ~verify_secret(secret, htlc.hash_lock)
        THEN Outcome(H, O, "InvalidSecret", FALSE, FALSE)
        ELSE IF htlc.txid = None \/ htlc.vout = None
        THEN Outcome(H, O, "HTLCNotLocked", FALSE, FALSE)
        ELSE IF tx.err # "Ok" THEN Outcome(H, O, tx.err, FALSE, FALSE)
        ELSE IF ~privkey_ok(recipient_privkey)
        THEN Outcome(H, O, "InvalidPrivateKey", TRUE, FALSE)
        ELSE IF ~sendOk THEN Outcome(H, O1, "RpcError", TRUE, TRUE)
        ELSE Outcome(done.htlcs, done.ops, "Ok", TRUE, TRUE)

\* the timelock check with <= in place of <
timelock_not_expired_inclusive(current_block, timelock) == current_block <= timelock

\* refund_htlc's timelock check: current_block < htlc.timelock is the error
timelock_not_expired(current_block, timelock) == current_block < timelock

\* lib.rs refund_htlc; current_block: what get_block_count returns, None when
\* the RPC fails
refund_htlc(H, O, htlc_id, refund_address, refund_privkey, current_block, sendOk) ==
    IF ~HasRow(H, htlc_id) THEN Outcome(H, O, "HTLCNotFound", FALSE, FALSE)
    ELSE
    LET htlc == get_htlc_by_id(H, htlc_id)
        tx == build_spend_tx(htlc.amount, refund_address)
        O1 == create_operation(O, [htlc_id |-> htlc_id,
                                   operation_type |-> "refund",
                                   raw_tx_hex |-> "refund_tx",
                                   signed_tx_hex |-> "refund_tx",
                                   status |-> "signed"])
        refund_txid == RefundTxid(htlc_id)
        \* an outcome after get_block_count returned current_block
        At(out) == [out EXCEPT !.current = current_block]
    IN  IF htlc.txid = None \/ htlc.vout = None
        THEN Outcome(H, O, "HTLCNotLocked", FALSE, FALSE)
        ELSE IF current_block = None
        THEN Outcome(H, O, "RpcError", FALSE, FALSE)
        ELSE IF timelock_not_expired(current_block, htlc.timelock)
        THEN [At(Outcome(H, O, "TimelockNotExpired", FALSE, FALSE))
                 EXCEPT !.required = htlc.timelock]
        ELSE IF tx.err # "Ok" THEN At(Outcome(H, O, tx.err, FALSE, FALSE))
        ELSE IF ~privkey_ok(refund_privkey)
        THEN At(Outcome(H, O, "InvalidPrivateKey", TRUE, FALSE))
        ELSE IF ~sendOk THEN At(Outcome(H, O1, "RpcError", TRUE, TRUE))
        ELSE At(Outcome(update_htlc_state(H, htlc_id, Refunded),
                        update_operation_broadcast(O1, Len(O1), refund_txid),
                        "Ok", TRUE, TRUE))

\* ------------------------------------------------------------ relayer steps
\* relayer.rs select_utxos: the shortest prefix of the list whose total reaches
\* required_amount; Err("Insufficient UTXOs") when the whole list does not
RECURSIVE select_from(_, _, _, _, _)
select_from(U, list, required_amount, selected, total) ==
    IF list = <<>> THEN [ok |-> FALSE, selected |-> selected]
    ELSE LET now == total + U[Head(list)].amount
             sel == Append(selected, Head(list))
         IN  IF now >= required_amount THEN [ok |-> TRUE, selected |-> sel]
             ELSE select_from(U, Tail(list), required_amount, sel, now)

select_utxos(U, list, required_amount) == select_from(U, list, required_amount, <<>>, 0)

AmountsOf(U, selected) == [k \in 1..Len(selected) |-> U[selected[k]].amount]

\* the hot wallet of the relayer's configuration
hot_wallet_address == "t_ok"
hot_wallet_privkey == "k_ok"

\* ---------------------------------------------------------------- the calls
\* a call of the coordinator: who called what, with which HTLC id and secret
\* (NULL when the call takes none), and what it returned
Call(call, by, id, secret, r) ==
    [call |-> call, by |-> by, id |-> id, secret |-> secret, result |-> r.result,
     built |-> r.built, sent |-> r.sent, current |-> r.current,
     required |-> r.required]

NoCall ==
    [call |-> "none", by |-> "none", id |-> 0, secret |-> NULL, result |-> "none",
     built |-> FALSE, sent |-> FALSE, current |-> None, required |-> None]

\* the id of the row a create_htlc call inserted, 0 when it inserted none
InsertedId(H, r) == IF Len(r.htlcs) > Len(H) THEN Len(r.htlcs) ELSE 0

WithinBounds(r) == Len(r.htlcs) <= MaxHtlcs /\ Len(r.ops) <= MaxOps

\* what callers pass to create_htlc: a request that passes every check with one
\* input and with two, and one request per check that can fail
GoodParams == [hash_lock |-> "ha", timelock |-> 2, amount |-> 100000]
CreateRequests ==
    {[params |-> GoodParams, funding |-> <<200000>>, change |-> "t_ok", keys |-> <<"k_ok">>],
     [params |-> GoodParams, funding |-> <<60000, 60000>>, change |-> "t_ok",
      keys |-> <<"k_ok", "k_ok">>],
     [params |-> [GoodParams EXCEPT !.amount = 545], funding |-> <<200000>>,
      change |-> "t_ok", keys |-> <<"k_ok">>],
     [params |-> [GoodParams EXCEPT !.hash_lock = "xx"], funding |-> <<200000>>,
      change |-> "t_ok", keys |-> <<"k_ok">>],
     [params |-> GoodParams, funding |-> <<100000>>, change |-> "t_ok", keys |-> <<"k_ok">>],
     [params |-> GoodParams, funding |-> <<200000>>, change |-> "bad", keys |-> <<"k_ok">>],
     [params |-> GoodParams, funding |-> <<60000, 60000>>, change |-> "t_ok",
      keys |-> <<"k_ok">>],
     [params |-> GoodParams, funding |-> <<200000>>, change |-> "t_ok", keys |-> <<"bad">>]}

\* what callers pass to redeem_htlc besides the id
RedeemRequests ==
    {[secret |-> "aa", address |-> "t_ok", key |-> "k_ok"],
     [secret |-> "bb", address |-> "t_ok", key |-> "k_ok"],
     [secret |-> "zz", address |-> "t_ok", key |-> "k_ok"],
     [secret |-> "aa", address |-> "bad", key |-> "k_ok"],
     [secret |-> "aa", address |-> "t_ok", key |-> "bad"]}

\* what callers pass to refund_htlc besides the id
RefundRequests ==
    {[address |-> "t_ok", key |-> "k_ok"],
     [address |-> "bad", key |-> "k_ok"],
     [address |-> "t_ok", key |-> "bad"]}

\* the hot wallet's UTXOs when the relayer starts
Wallet ==
    <<[txid |-> 101, vout |-> 0, amount |-> 200000, confirmations |-> 1,
       spent |-> FALSE, spent_in_tx |-> None],
      [txid |-> 102, vout |-> 0, amount |-> 60000, confirmations |-> 1,
       spent |-> FALSE, spent_in_tx |-> None],
      [txid |-> 102, vout |-> 1, amount |-> 60000, confirmations |-> 1,
       spent |-> FALSE, spent_in_tx |-> None],
      [txid |-> 103, vout |-> 0, amount |-> 300000, confirmations |-> 0,
       spent |-> FALSE, spent_in_tx |-> None]>>

\* the processes that call the coordinator: the relayer and a library caller
Procs == {"relayer", "client"}

\* a coordinator call in progress: the calls it has yet to make on the store and
\* on the node (todo), the ids it generated, the ZcashHTLC it inserts (create),
\* the secret (redeem), the positions in relayer_utxos of the funding inputs
\* (create) and, once todo is empty, what it returned
NoHtlc == [state |-> Pending, hash_lock |-> NULL, timelock |-> 0, amount |-> 0]

InCall(op, todo, htlc_id, htlc, secret, inputs, result) ==
    [op |-> op, todo |-> todo, htlc_id |-> htlc_id, operation_id |-> 0, htlc |-> htlc,
     secret |-> secret, inputs |-> inputs, result |-> result]

\* no call in progress
Idle == InCall("idle", <<>>, 0, NoHtlc, NULL, <<>>, "none")
NoCalls == [p \in Procs |-> Idle]

Init ==
    /\ htlcs = <<>>
    /\ ops = <<>>
    /\ utxos = Wallet
    /\ height = 1
    /\ pc = "tick"
    /\ batch = <<>>
    /\ ret = NoCall
    /\ calls = NoCalls
    /\ chain = {}
    /\ max_tx_per_batch = MaxTxPerBatch
    /\ faults = 0

\* a caller of the library creates an HTLC
ClientCreate ==
    \E req \in CreateRequests, sendOk \in BOOLEAN :
        LET r == create_htlc(htlcs, ops, req.params, req.funding, req.change, req.keys,
                             sendOk)
        IN  /\ WithinBounds(r)
            /\ htlcs' = r.htlcs
            /\ ops' = r.ops
            /\ ret' = Call("create_htlc", "client", InsertedId(htlcs, r), NULL, r)
            /\ UNCHANGED <<utxos, height, pc, batch, calls, chain, max_tx_per_batch, faults>>

\* cli.rs redeem: a caller redeems HTLC id
ClientRedeem ==
    \E id \in 1..MaxHtlcs, req \in RedeemRequests, sendOk \in BOOLEAN :
        LET r == redeem_htlc(htlcs, ops, id, req.secret, req.address, req.key, sendOk)
        IN  /\ WithinBounds(r)
            /\ htlcs' = r.htlcs
            /\ ops' = r.ops
            /\ ret' = Call("redeem_htlc", "client", id, req.secret, r)
            /\ UNCHANGED <<utxos, height, pc, batch, calls, chain, max_tx_per_batch, faults>>

\* cli.rs refund: a caller refunds HTLC id
ClientRefund ==
    \E id \in 1..MaxHtlcs, req \in RefundRequests,
       current_block \in {height, None}, sendOk \in BOOLEAN :
        LET r == refund_htlc(htlcs, ops, id, req.address, req.key, current_block, sendOk)
        IN  /\ WithinBounds(r)
            /\ htlcs' = r.htlcs
            /\ ops' = r.ops
            /\ ret' = Call("refund_htlc", "client", id, NULL, r)
            /\ UNCHANGED <<utxos, height, pc, batch, calls, chain, max_tx_per_batch, faults>>

\* a pre-signed redemption is stored for a row (Database::store_signed_redeem_tx)
StoreSignedRedeemTx ==
    \E id \in 1..Len(htlcs), signed_tx \in SignedTxs :
        /\ htlcs' = store_signed_redeem_tx(htlcs, id, signed_tx)
        /\ htlcs' # htlcs
        /\ ret' = NoCall
        /\ UNCHANGED <<ops, utxos, height, pc, batch, calls, chain, max_tx_per_batch, faults>>

\* the chain grows by a block
NewBlock ==
    /\ height < MaxHeight
    /\ height' = height + 1
    /\ ret' = NoCall
    /\ UNCHANGED <<htlcs, ops, utxos, pc, batch, calls, chain, max_tx_per_batch, faults>>

\* run(): ticker.tick().await returns
run_tick ==
    /\ pc = "tick"
    /\ pc' = "sync"
    /\ ret' = NoCall
    /\ UNCHANGED <<htlcs, ops, utxos, height, batch, calls, chain, max_tx_per_batch, faults>>

\* sync_utxos: reads the balance and logs it
sync_utxos ==
    /\ pc = "sync"
    /\ pc' = "creations"
    /\ ret' = NoCall
    /\ UNCHANGED <<htlcs, ops, utxos, height, batch, calls, chain, max_tx_per_batch, faults>>

\* the position after a step's batch became rest
After(rest, loop, next) == IF rest = <<>> THEN next ELSE loop

\* process_pending_htlc_creations: the query
process_pending_htlc_creations ==
    /\ pc = "creations"
    /\ batch' = get_pending_htlcs_for_creation(htlcs, max_tx_per_batch)
    /\ pc' = After(batch', "creations_loop", "redemptions")
    /\ ret' = NoCall
    /\ UNCHANGED <<htlcs, ops, utxos, height, calls, chain, max_tx_per_batch, faults>>

\* process_pending_htlc_creations: one turn of the loop
process_pending_htlc_creation ==
    /\ pc = "creations_loop"
    /\ LET htlc_id == Head(batch).id
           htlc == htlcs[htlc_id]
           funding_utxos == get_unspent_relayer_utxos(utxos)
           chosen == select_utxos(utxos, funding_utxos, htlc.amount + NetworkFee)
           params == [hash_lock |-> htlc.hash_lock, timelock |-> htlc.timelock,
                      amount |-> htlc.amount]
       IN  IF funding_utxos = <<>>
           THEN \* continue
                /\ batch' = Tail(batch)
                /\ pc' = After(batch', "creations_loop", "redemptions")
                /\ ret' = NoCall
                /\ UNCHANGED <<htlcs, ops, utxos, height, calls, chain, max_tx_per_batch, faults>>
           ELSE IF ~chosen.ok
           THEN \* select_utxos(..)? returns the error from the function
                /\ batch' = <<>>
                /\ pc' = "redemptions"
                /\ ret' = NoCall
                /\ UNCHANGED <<htlcs, ops, utxos, height, calls, chain, max_tx_per_batch, faults>>
           ELSE \E sendOk \in BOOLEAN :
                LET r == create_htlc(htlcs, ops, params, AmountsOf(utxos, chosen.selected),
                                     hot_wallet_address, <<hot_wallet_privkey>>, sendOk)
                IN  /\ WithinBounds(r)
                    /\ IF r.result = "Ok"
                       THEN /\ htlcs' = r.htlcs
                            /\ utxos' = mark_all_spent(utxos, chosen.selected,
                                                       FundingTxid(InsertedId(htlcs, r)))
                       ELSE /\ htlcs' = update_htlc_state(r.htlcs, htlc_id, Failed)
                            /\ UNCHANGED utxos
                    /\ ops' = r.ops
                    /\ batch' = Tail(batch)
                    /\ pc' = After(batch', "creations_loop", "redemptions")
                    /\ ret' = Call("create_htlc", "relayer", InsertedId(htlcs, r), NULL, r)
                    /\ UNCHANGED <<height, calls, chain, max_tx_per_batch, faults>>

\* process_pending_redemptions: the query
process_pending_redemptions ==
    /\ pc = "redemptions"
    /\ batch' = get_htlcs_with_signed_redeem_tx(htlcs, max_tx_per_batch)
    /\ pc' = After(batch', "redemptions_loop", "refunds")
    /\ ret' = NoCall
    /\ UNCHANGED <<htlcs, ops, utxos, height, calls, chain, max_tx_per_batch, faults>>

\* the match on broadcast_raw_tx's result with Redeemed written in both arms
redemption_result_ignored(H, id, sendOk) ==
    Outcome(update_htlc_state(H, id, Redeemed), <<>>,
            IF sendOk THEN "Ok" ELSE "RpcError", FALSE, TRUE)

\* process_pending_redemptions: the match on broadcast_raw_tx's result, Ok(txid)
\* sets the row Redeemed, Err(e) is logged
redemption_result(H, id, sendOk) ==
    Outcome(IF sendOk THEN update_htlc_state(H, id, Redeemed) ELSE H, <<>>,
            IF sendOk THEN "Ok" ELSE "RpcError", FALSE, TRUE)

\* process_pending_redemptions: one turn of the loop, broadcast_raw_tx of the
\* stored transaction
process_pending_redemption ==
    /\ pc = "redemptions_loop"
    /\ \E sendOk \in BOOLEAN :
        LET htlc == Head(batch)
            r == redemption_result(htlcs, htlc.id, sendOk)
        IN  /\ htlc.signed_redeem_tx # NULL
            /\ htlcs' = r.htlcs
            /\ ret' = Call("broadcast_raw_tx", "relayer", htlc.id, NULL, r)
    /\ batch' = Tail(batch)
    /\ pc' = After(batch', "redemptions_loop", "refunds")
    /\ UNCHANGED <<ops, utxos, height, calls, chain, max_tx_per_batch, faults>>

\* process_expired_htlcs: get_current_block_height and the query; an RPC error
\* ends the step
process_expired_htlcs ==
    /\ pc = "refunds"
    /\ \E rpcOk \in BOOLEAN :
        /\ batch' = IF rpcOk THEN get_expired_htlcs(htlcs, height) ELSE <<>>
        /\ pc' = After(batch', "refunds_loop", "tick")
    /\ ret' = NoCall
    /\ UNCHANGED <<htlcs, ops, utxos, height, calls, chain, max_tx_per_batch, faults>>

\* process_expired_htlcs: one turn of the loop
process_expired_htlc ==
    /\ pc = "refunds_loop"
    /\ \E current_block \in {height, None}, sendOk \in BOOLEAN :
        LET id == Head(batch).id
            r == refund_htlc(htlcs, ops, id, hot_wallet_address, hot_wallet_privkey,
                             current_block, sendOk)
        IN  /\ WithinBounds(r)
            /\ htlcs' = r.htlcs
            /\ ops' = r.ops
            /\ ret' = Call("refund_htlc", "relayer", id, NULL, r)
    /\ batch' = Tail(batch)
    /\ pc' = After(batch', "refunds_loop", "tick")
    /\ UNCHANGED <<utxos, height, calls, chain, max_tx_per_batch, faults>>

Next ==
    \/ ClientCreate
    \/ ClientRedeem
    \/ ClientRefund
    \/ StoreSignedRedeemTx
    \/ NewBlock
    \/ run_tick
    \/ sync_utxos
    \/ process_pending_htlc_creations
    \/ process_pending_htlc_creation
    \/ process_pending_redemptions
    \/ process_pending_redemption
    \/ process_expired_htlcs
    \/ process_expired_htlc

Spec == Init /\ [][Next]_vars

\* ------------------------------------------------- the relayer_utxos store
\* The store operations on relayer_utxos, called in any order on the hot
\* wallet's table: the rows inserted and the keys updated.
UtxoKeys == {<<101, 0>>, <<102, 0>>, <<104, 0>>}

UtxoInputs ==
    {[txid |-> key[1], vout |-> key[2], amount |-> 50000, confirmations |-> c] :
        key \in UtxoKeys, c \in 0..MaxConfirmations}

\* a call of a store operation on the row with transaction id txid
StoreCall(call, txid) == [NoCall EXCEPT !.call = call, !.id = txid]

CreateRelayerUtxo ==
    \E utxo \in UtxoInputs :
        /\ Len(create_relayer_utxo(utxos, utxo)) <= MaxUtxos
        /\ utxos' = create_relayer_utxo(utxos, utxo)
        /\ ret' = StoreCall("create_relayer_utxo", utxo.txid)
        /\ UNCHANGED <<htlcs, ops, height, pc, batch, calls, chain, max_tx_per_batch, faults>>

MarkUtxoSpent ==
    \E key \in UtxoKeys :
        /\ utxos' = mark_utxo_spent(utxos, key[1], key[2], FundingTxid(1))
        /\ ret' = StoreCall("mark_utxo_spent", key[1])
        /\ UNCHANGED <<htlcs, ops, height, pc, batch, calls, chain, max_tx_per_batch, faults>>

UpdateUtxoConfirmations ==
    \E key \in UtxoKeys, confirmations \in 0..MaxConfirmations :
        /\ utxos' = update_utxo_confirmations(utxos, key[1], key[2], confirmations)
        /\ ret' = StoreCall("update_utxo_confirmations", key[1])
        /\ UNCHANGED <<htlcs, ops, height, pc, batch, calls, chain, max_tx_per_batch, faults>>

UtxoNext ==
    \/ CreateRelayerUtxo
    \/ MarkUtxoSpent
    \/ UpdateUtxoConfirmations

UtxoSpec == Init /\ [][UtxoNext]_vars

\* ------------------------------------------------ coordinator calls, by step
\* The calls of create_htlc, redeem_htlc and refund_htlc on the store and on the
\* node, in the order of the code, after the transaction was built and signed.
create_order_broadcast_first ==
    <<"create_htlc", "send_raw_transaction", "create_operation", "update_htlc_txid",
      "update_operation_broadcast">>

create_order ==
    <<"create_htlc", "create_operation", "send_raw_transaction", "update_htlc_txid",
      "update_operation_broadcast">>

redeem_order ==
    <<"create_operation", "send_raw_transaction", "update_htlc_state",
      "update_htlc_secret", "update_operation_broadcast">>

refund_order ==
    <<"get_block_count", "create_operation", "send_raw_transaction", "update_htlc_state",
      "update_operation_broadcast">>

\* per coordinator call: the operation type, the serialized signed transaction,
\* the txid the node returns for it, and the state written after the broadcast
OperationType(op) ==
    IF op = "create_htlc" THEN "create" ELSE IF op = "redeem_htlc" THEN "redeem" ELSE "refund"

TxHex(op) ==
    IF op = "create_htlc" THEN "funding_tx"
    ELSE IF op = "redeem_htlc" THEN "redeem_tx" ELSE "refund_tx"

TxidOf(op, id) ==
    IF op = "create_htlc" THEN FundingTxid(id)
    ELSE IF op = "redeem_htlc" THEN RedeemTxid(id) ELSE RefundTxid(id)

StateAfter(op) == IF op = "redeem_htlc" THEN Redeemed ELSE Refunded

\* the ? operator: the call returns the error, the calls left are not made
Returned(c, result) == [c EXCEPT !.todo = <<>>, !.result = result]

\* the call made its next call and goes on, Ok(..) after the last one
Advance(c) == IF Len(c.todo) = 1 THEN Returned(c, "Ok") ELSE [c EXCEPT !.todo = Tail(@)]

\* a library caller is done when its call returned; the relayer matches on
\* the result in its loop
Leave(p, c) == IF p # "relayer" /\ c.todo = <<>> THEN Idle ELSE c

\* process p is at the given call of its coordinator call
AtStep(p, step) == calls[p].todo # <<>> /\ Head(calls[p].todo) = step

\* the step a process made: the call on the store or node, the HTLC, the result
StepCall(by, call, id, result) ==
    [NoCall EXCEPT !.call = call, !.by = by, !.id = id, !.result = result]

\* the transaction the node accepted: funding, redeem or refund of HTLC id,
\* spending the relayer UTXOs at the given positions
Accepted(c) ==
    [tx |-> TxHex(c.op), id |-> c.htlc_id,
     inputs |-> {c.inputs[k] : k \in 1..Len(c.inputs)}]

\* the calls on the store and on the node that fail are counted, up to MaxFaults:
\* the answers a call can get, and the count after it
Answers == IF faults < MaxFaults THEN BOOLEAN ELSE {TRUE}

Fault(ok) == faults' = IF ok THEN faults ELSE faults + 1

\* self.database.create_htlc(&htlc)?
do_create_htlc(p) ==
    /\ AtStep(p, "create_htlc")
    /\ Len(htlcs) < MaxStepHtlcs
    /\ \E ok \in Answers :
        LET c == calls[p]
            id == Len(htlcs) + 1
        IN  /\ Fault(ok)
            /\ htlcs' = IF ok THEN db_create_htlc(htlcs, c.htlc) ELSE htlcs
            /\ calls' = [calls EXCEPT ![p] =
                            Leave(p, IF ok THEN Advance([c EXCEPT !.htlc_id = id])
                                     ELSE Returned(c, "DatabaseError"))]
            /\ ret' = StepCall(p, "create_htlc", IF ok THEN id ELSE 0,
                               IF ok THEN "Ok" ELSE "DatabaseError")
    /\ UNCHANGED <<ops, utxos, height, pc, batch, chain, max_tx_per_batch>>

\* self.database.create_operation(&operation)?
do_create_operation(p) ==
    /\ AtStep(p, "create_operation")
    /\ Len(ops) < MaxStepOps
    /\ \E ok \in Answers :
        LET c == calls[p]
            operation == [htlc_id |-> c.htlc_id,
                          operation_type |-> OperationType(c.op),
                          raw_tx_hex |-> TxHex(c.op),
                          signed_tx_hex |-> TxHex(c.op),
                          status |-> "signed"]
        IN  /\ Fault(ok)
            /\ ops' = IF ok THEN create_operation(ops, operation) ELSE ops
            /\ calls' = [calls EXCEPT ![p] =
                            Leave(p, IF ok THEN Advance([c EXCEPT !.operation_id = Len(ops')])
                                     ELSE Returned(c, "DatabaseError"))]
            /\ ret' = StepCall(p, "create_operation", c.htlc_id,
                               IF ok THEN "Ok" ELSE "DatabaseError")
    /\ UNCHANGED <<htlcs, utxos, height, pc, batch, chain, max_tx_per_batch>>

\* self.rpc_client.send_raw_transaction(&tx_hex).await?
do_send_raw_transaction(p) ==
    /\ AtStep(p, "send_raw_transaction")
    /\ \E sendOk \in Answers :
        LET c == calls[p]
        IN  /\ Fault(sendOk)
            /\ chain' = IF sendOk THEN chain \cup {Accepted(c)} ELSE chain
            /\ calls' = [calls EXCEPT ![p] =
                            Leave(p, IF sendOk THEN Advance(c) ELSE Returned(c, "RpcError"))]
            /\ ret' = StepCall(p, "send_raw_transaction", c.htlc_id,
                               IF sendOk THEN "Ok" ELSE "RpcError")
    /\ UNCHANGED <<htlcs, ops, utxos, height, pc, batch, max_tx_per_batch>>

\* self.database.update_htlc_txid(&htlc_id, &txid, 0)?
do_update_htlc_txid(p) ==
    /\ AtStep(p, "update_htlc_txid")
    /\ \E ok \in Answers :
        LET c == calls[p]
        IN  /\ Fault(ok)
            /\ htlcs' = IF ok THEN update_htlc_txid(htlcs, c.htlc_id,
                                                    TxidOf(c.op, c.htlc_id), 0)
                        ELSE htlcs
            /\ calls' = [calls EXCEPT ![p] =
                            Leave(p, IF ok THEN Advance(c) ELSE Returned(c, "DatabaseError"))]
            /\ ret' = StepCall(p, "update_htlc_txid", c.htlc_id,
                               IF ok THEN "Ok" ELSE "DatabaseError")
    /\ UNCHANGED <<ops, utxos, height, pc, batch, chain, max_tx_per_batch>>

\* self.database.update_htlc_state(htlc_id, HTLCState::Redeemed / Refunded)?
do_update_htlc_state(p) ==
    /\ AtStep(p, "update_htlc_state")
    /\ \E ok \in Answers :
        LET c == calls[p]
        IN  /\ Fault(ok)
            /\ htlcs' = IF ok THEN update_htlc_state(htlcs, c.htlc_id, StateAfter(c.op))
                        ELSE htlcs
            /\ calls' = [calls EXCEPT ![p] =
                            Leave(p, IF ok THEN Advance(c) ELSE Returned(c, "DatabaseError"))]
            /\ ret' = StepCall(p, "update_htlc_state", c.htlc_id,
                               IF ok THEN "Ok" ELSE "DatabaseError")
    /\ UNCHANGED <<ops, utxos, height, pc, batch, chain, max_tx_per_batch>>

\* self.database.update_htlc_secret(htlc_id, secret)?
do_update_htlc_secret(p) ==
    /\ AtStep(p, "update_htlc_secret")
    /\ \E ok \in Answers :
        LET c == calls[p]
        IN  /\ Fault(ok)
            /\ htlcs' = IF ok THEN update_htlc_secret(htlcs, c.htlc_id, c.secret) ELSE htlcs
            /\ calls' = [calls EXCEPT ![p] =
                            Leave(p, IF ok THEN Advance(c) ELSE Returned(c, "DatabaseError"))]
            /\ ret' = StepCall(p, "update_htlc_secret", c.htlc_id,
                               IF ok THEN "Ok" ELSE "DatabaseError")
    /\ UNCHANGED <<ops, utxos, height, pc, batch, chain, max_tx_per_batch>>

\* self.database.update_operation_broadcast(&operation_id, &txid)?
do_update_operation_broadcast(p) ==
    /\ AtStep(p, "update_operation_broadcast")
    /\ \E ok \in Answers :
        LET c == calls[p]
        IN  /\ Fault(ok)
            /\ ops' = IF ok THEN update_operation_broadcast(ops, c.operation_id,
                                                            TxidOf(c.op, c.htlc_id))
                      ELSE ops
            /\ calls' = [calls EXCEPT ![p] =
                            Leave(p, IF ok THEN Advance(c) ELSE Returned(c, "DatabaseError"))]
            /\ ret' = StepCall(p, "update_operation_broadcast", c.htlc_id,
                               IF ok THEN "Ok" ELSE "DatabaseError")
    /\ UNCHANGED <<htlcs, utxos, height, pc, batch, chain, max_tx_per_batch>>

\* refund_htlc: get_block_count().await?, then the timelock check, the builder
\* and the signer, on the row as it is in the store
do_get_block_count(p) ==
    /\ AtStep(p, "get_block_count")
    /\ \E ok \in Answers :
        LET c == calls[p]
            current_block == IF ok THEN height ELSE None
            r == refund_htlc(htlcs, ops, c.htlc_id, hot_wallet_address, hot_wallet_privkey,
                             current_block, TRUE)
        IN  /\ Fault(ok)
            /\ calls' = [calls EXCEPT ![p] =
                            Leave(p, IF r.result = "Ok" THEN Advance(c)
                                     ELSE Returned(c, r.result))]
            /\ ret' = [StepCall(p, "get_block_count", c.htlc_id, r.result)
                          EXCEPT !.current = r.current, !.required = r.required]
    /\ UNCHANGED <<htlcs, ops, utxos, height, pc, batch, chain, max_tx_per_batch>>

\* ------------------------------------------------------ the relayer, by step
\* run() with a step that returns Err ending the loop
logged_or_stopped(result, next) == IF result = "Ok" THEN next ELSE "stopped"

\* run(): if let Err(e) = self.step().await { error!(..) }: whatever the step
\* returned, the loop goes on to the next one
logged(result, next) == next

\* what a store call returns
DbResult(ok) == IF ok THEN "Ok" ELSE "DatabaseError"

\* sync_utxos: get_total_relayer_balance(..)?, then the balance is logged
sync_utxos_step ==
    /\ pc = "sync"
    /\ \E ok \in Answers :
        /\ Fault(ok)
        /\ pc' = logged(DbResult(ok), "creations")
        /\ ret' = StepCall("relayer", "sync_utxos", 0, DbResult(ok))
    /\ UNCHANGED <<htlcs, ops, utxos, height, batch, calls, chain, max_tx_per_batch>>

\* process_pending_htlc_creations: get_pending_htlcs_for_creation(..)?
process_pending_htlc_creations_step ==
    /\ pc = "creations"
    /\ \E ok \in Answers :
        /\ Fault(ok)
        /\ batch' = IF ok THEN get_pending_htlcs_for_creation(htlcs, max_tx_per_batch)
                    ELSE <<>>
        /\ pc' = IF ok THEN After(batch', "creations_loop", logged("Ok", "redemptions"))
                 ELSE logged("DatabaseError", "redemptions")
        /\ ret' = StepCall("relayer", "process_pending_htlc_creations", 0, DbResult(ok))
    /\ UNCHANGED <<htlcs, ops, utxos, height, calls, chain, max_tx_per_batch>>

\* process_pending_htlc_creations, one turn of the loop up to the call of
\* create_htlc: get_relayer_utxos().await?, the empty check, select_utxos(..)?,
\* then create_htlc builds and signs the transaction
creation_begin ==
    /\ pc = "creations_loop"
    /\ \E ok \in Answers :
        LET htlc_id == Head(batch).id
            htlc == htlcs[htlc_id]
            funding_utxos == get_unspent_relayer_utxos(utxos)
            chosen == select_utxos(utxos, funding_utxos, htlc.amount + NetworkFee)
            params == [hash_lock |-> htlc.hash_lock, timelock |-> htlc.timelock,
                       amount |-> htlc.amount]
            row == [state |-> Pending, hash_lock |-> htlc.hash_lock,
                    timelock |-> htlc.timelock, amount |-> htlc.amount]
            built == create_htlc(htlcs, ops, params, AmountsOf(utxos, chosen.selected),
                                 hot_wallet_address, <<hot_wallet_privkey>>, TRUE)
        IN  /\ Fault(ok)
            /\ IF ~ok
               THEN
                 /\ batch' = <<>>
                 /\ pc' = logged("DatabaseError", "redemptions")
                 /\ ret' = StepCall("relayer", "process_pending_htlc_creations", htlc_id,
                                    "DatabaseError")
                 /\ UNCHANGED calls
               ELSE IF funding_utxos = <<>>
               THEN \* continue
                 /\ batch' = Tail(batch)
                 /\ pc' = After(batch', "creations_loop", logged("Ok", "redemptions"))
                 /\ ret' = StepCall("relayer", "get_relayer_utxos", htlc_id, "NoUtxos")
                 /\ UNCHANGED calls
               ELSE IF ~chosen.ok
               THEN \* select_utxos(..)? returns the error from the function
                 /\ batch' = <<>>
                 /\ pc' = logged("InsufficientUtxos", "redemptions")
                 /\ ret' = StepCall("relayer", "process_pending_htlc_creations", htlc_id,
                                    "InsufficientUtxos")
                 /\ UNCHANGED calls
               ELSE
                 /\ calls' = [calls EXCEPT !["relayer"] =
                                 IF built.result = "Ok"
                                 THEN InCall("create_htlc", create_order, 0, row, NULL,
                                             chosen.selected, "none")
                                 ELSE InCall("create_htlc", <<>>, 0, row, NULL,
                                             chosen.selected, built.result)]
                 /\ pc' = "creation_call"
                 /\ ret' = StepCall("relayer", "select_utxos", htlc_id, "Ok")
                 /\ UNCHANGED batch
    /\ UNCHANGED <<htlcs, ops, utxos, height, chain, max_tx_per_batch>>

\* for utxo in selected_utxos { if let Err(e) = mark_utxo_spent(..) { error!(..) } }:
\* marked[k] tells whether the k-th call succeeded
RECURSIVE mark_each_spent(_, _, _, _)
mark_each_spent(U, selected, marked, spent_in_tx) ==
    IF selected = <<>> THEN U
    ELSE mark_each_spent(IF Head(marked)
                         THEN mark_utxo_spent(U, U[Head(selected)].txid,
                                              U[Head(selected)].vout, spent_in_tx)
                         ELSE U,
                         Tail(selected), Tail(marked), spent_in_tx)

\* process_pending_htlc_creations, the match on what create_htlc returned:
\* Ok(result) marks the selected UTXOs spent, Err(e) sets the pending row Failed
\* (let _ = update_htlc_state(..))
creation_match ==
    /\ pc = "creation_call"
    /\ calls["relayer"].todo = <<>>
    /\ LET c == calls["relayer"]
           htlc_id == Head(batch).id
       IN  /\ IF c.result = "Ok"
              THEN /\ \E marked \in [1..Len(c.inputs) -> Answers] :
                        /\ utxos' = mark_each_spent(utxos, c.inputs, marked,
                                                    FundingTxid(c.htlc_id))
                        /\ faults' = faults + Cardinality({k \in DOMAIN marked : ~marked[k]})
                   /\ UNCHANGED htlcs
              ELSE /\ \E ok \in Answers :
                        /\ Fault(ok)
                        /\ htlcs' = IF ok THEN update_htlc_state(htlcs, htlc_id, Failed)
                                    ELSE htlcs
                   /\ UNCHANGED utxos
           /\ ret' = StepCall("relayer", "create_htlc", c.htlc_id, c.result)
    /\ calls' = [calls EXCEPT !["relayer"] = Idle]
    /\ batch' = Tail(batch)
    /\ pc' = After(batch', "creations_loop", logged("Ok", "redemptions"))
    /\ UNCHANGED <<ops, height, chain, max_tx_per_batch>>

\* process_pending_redemptions: get_htlcs_with_signed_redeem_tx(..)?
process_pending_redemptions_step ==
    /\ pc = "redemptions"
    /\ \E ok \in Answers :
        /\ Fault(ok)
        /\ batch' = IF ok THEN get_htlcs_with_signed_redeem_tx(htlcs, max_tx_per_batch)
                    ELSE <<>>
        /\ pc' = IF ok THEN After(batch', "redemptions_loop", logged("Ok", "refunds"))
                 ELSE logged("DatabaseError", "refunds")
        /\ ret' = StepCall("relayer", "process_pending_redemptions", 0, DbResult(ok))
    /\ UNCHANGED <<htlcs, ops, utxos, height, calls, chain, max_tx_per_batch>>

\* process_expired_htlcs: get_current_block_height().await?, get_expired_htlcs(..)?
process_expired_htlcs_step ==
    /\ pc = "refunds"
    /\ \E result \in {"Ok"} \cup {e \in {"RpcError", "DatabaseError"} : FALSE \in Answers} :
        /\ Fault(result = "Ok")
        /\ batch' = IF result = "Ok" THEN get_expired_htlcs(htlcs, height) ELSE <<>>
        /\ pc' = IF result = "Ok" THEN After(batch', "refunds_loop", logged("Ok", "tick"))
                 ELSE logged(result, "tick")
        /\ ret' = StepCall("relayer", "process_expired_htlcs", 0, result)
    /\ UNCHANGED <<htlcs, ops, utxos, height, calls, chain, max_tx_per_batch>>

\* refund_htlc up to its first call on the node: get_htlc_by_id(htlc_id)?, then
\* txid and vout .ok_or(HTLCNotLocked)?
refund_checks(H, htlc_id, ok) ==
    IF ~ok THEN "DatabaseError"
    ELSE IF ~HasRow(H, htlc_id) THEN "HTLCNotFound"
    ELSE IF H[htlc_id].txid = None \/ H[htlc_id].vout = None THEN "HTLCNotLocked"
    ELSE "Ok"

\* process_expired_htlcs, one turn of the loop: the call of refund_htlc
refund_begin ==
    /\ pc = "refunds_loop"
    /\ \E ok \in Answers :
        LET htlc_id == Head(batch).id
            checks == refund_checks(htlcs, htlc_id, ok)
        IN  /\ Fault(ok)
            /\ calls' = [calls EXCEPT !["relayer"] =
                            IF checks = "Ok"
                            THEN InCall("refund_htlc", refund_order, htlc_id, NoHtlc, NULL,
                                        <<>>, "none")
                            ELSE InCall("refund_htlc", <<>>, htlc_id, NoHtlc, NULL, <<>>,
                                        checks)]
            /\ ret' = StepCall("relayer", "get_htlc_by_id", htlc_id, checks)
    /\ pc' = "refund_call"
    /\ UNCHANGED <<htlcs, ops, utxos, height, batch, chain, max_tx_per_batch>>

\* the Err arm of the match writing Failed, as the one of the creations does
refund_failed_marks_failed(H, htlc_id) == update_htlc_state(H, htlc_id, Failed)

\* process_expired_htlcs: Err(e) => error!("Failed to refund HTLC ..") writes
\* nothing
refund_failed(H, htlc_id) == H

\* process_expired_htlcs, the match on what refund_htlc returned: both arms log
refund_match ==
    /\ pc = "refund_call"
    /\ calls["relayer"].todo = <<>>
    /\ htlcs' = IF calls["relayer"].result = "Ok" THEN htlcs
                ELSE refund_failed(htlcs, calls["relayer"].htlc_id)
    /\ ret' = StepCall("relayer", "refund_htlc", calls["relayer"].htlc_id,
                       calls["relayer"].result)
    /\ calls' = [calls EXCEPT !["relayer"] = Idle]
    /\ batch' = Tail(batch)
    /\ pc' = After(batch', "refunds_loop", logged("Ok", "tick"))
    /\ UNCHANGED <<ops, utxos, height, chain, max_tx_per_batch, faults>>

\* a library caller calls redeem_htlc with the secret, an address and a key that
\* pass its checks: the row is read, the transaction built and signed
redeem_begin(p) ==
    /\ p # "relayer"
    /\ calls[p].op = "idle"
    /\ Cardinality({i \in 1..Len(ops) : ops[i].operation_type = "redeem"}) < MaxRedeems
    /\ \E id \in 1..Len(htlcs) :
        /\ redeem_htlc(htlcs, ops, id, "aa", "t_ok", "k_ok", TRUE).result = "Ok"
        /\ calls' = [calls EXCEPT ![p] =
                        InCall("redeem_htlc", redeem_order, id, NoHtlc, "aa", <<>>, "none")]
        /\ ret' = StepCall(p, "get_htlc_by_id", id, "Ok")
    /\ UNCHANGED <<htlcs, ops, utxos, height, pc, batch, chain, max_tx_per_batch, faults>>

\* the store when the relayer starts: pending rows that callers' create_htlc
\* left behind when the node refused their transactions
Seeded(amounts) ==
    LET first == create_htlc(<<>>, <<>>, [GoodParams EXCEPT !.amount = amounts[1]],
                             <<amounts[1] + 100000>>, "t_ok", <<"k_ok">>, FALSE)
    IN  create_htlc(first.htlcs, first.ops, [GoodParams EXCEPT !.amount = amounts[2]],
                    <<amounts[2] + 100000>>, "t_ok", <<"k_ok">>, FALSE)

\* the pending amounts and the hot wallet the relayer starts with
Seeds ==
    {[amounts |-> <<100000, 40000>>, wallet |-> Wallet],
     [amounts |-> <<400000, 100000>>, wallet |-> Wallet],
     [amounts |-> <<100000, 40000>>, wallet |-> SubSeq(Wallet, 1, 1)]}

StepInit ==
    /\ \E seed \in Seeds :
        /\ htlcs = Seeded(seed.amounts).htlcs
        /\ ops = Seeded(seed.amounts).ops
        /\ utxos = seed.wallet
    /\ height = MaxHeight - 1
    /\ pc = "tick"
    /\ batch = <<>>
    /\ ret = NoCall
    /\ calls = NoCalls
    /\ chain = {}
    /\ max_tx_per_batch = MaxTxPerBatch + 1
    /\ faults = 0

StepNext ==
    \/ NewBlock
    \/ run_tick
    \/ sync_utxos_step
    \/ process_pending_htlc_creations_step
    \/ creation_begin
    \/ creation_match
    \/ process_pending_redemptions_step
    \/ process_expired_htlcs_step
    \/ refund_begin
    \/ refund_match
    \/ \E p \in Procs : redeem_begin(p)
    \/ \E p \in Procs : do_create_htlc(p)
    \/ \E p \in Procs : do_create_operation(p)
    \/ \E p \in Procs : do_send_raw_transaction(p)
    \/ \E p \in Procs : do_update_htlc_txid(p)
    \/ \E p \in Procs : do_update_htlc_state(p)
    \/ \E p \in Procs : do_update_htlc_secret(p)
    \/ \E p \in Procs : do_update_operation_broadcast(p)
    \/ \E p \in Procs : do_get_block_count(p)

StepSpec == StepInit /\ [][StepNext]_vars

\* ------------------------------------------- the functions, call by call
\* The queries, the builder, the signer and the script functions applied to
\* inputs drawn from small sets: ret holds the call, its arguments and what
\* it returned; the store is a table of rows in any state.
Applied(call, args, result) == [call |-> call, args |-> args, result |-> result]

\* a row of zcash_htlcs in the given state: funded rows have their outpoint,
\* redeemed rows their secret
RowIn(id, state, timelock) ==
    [state |-> state,
     txid |-> IF state = Pending THEN None ELSE FundingTxid(id),
     vout |-> IF state = Pending THEN None ELSE 0,
     secret |-> IF state = Redeemed THEN "aa" ELSE NULL,
     signed_redeem_tx |-> NULL,
     hash_lock |-> "ha",
     timelock |-> timelock,
     amount |-> 100000]

Tables ==
    UNION {{[i \in 1..n |-> RowIn(i, f[i][1], f[i][2])] :
               f \in [1..n -> {Pending, Locked, Redeemed, Refunded} \X (1..MaxHeight)]} :
           n \in 0..MaxHtlcs}

QueryInit ==
    /\ htlcs \in Tables
    /\ ops = <<>>
    /\ utxos = <<>>
    /\ height = 1
    /\ pc = "tick"
    /\ batch = <<>>
    /\ ret = Applied("none", <<>>, <<>>)
    /\ calls = NoCalls
    /\ chain = {}
    /\ max_tx_per_batch = MaxTxPerBatch
    /\ faults = 0

\* Database::get_expired_htlcs(current_block)
GetExpiredHtlcs ==
    \E current_block \in 0..(MaxHeight + 1) :
        /\ ret' = Applied("get_expired_htlcs", [current_block |-> current_block],
                          get_expired_htlcs(htlcs, current_block))
        /\ UNCHANGED <<htlcs, ops, utxos, height, pc, batch, calls, chain, max_tx_per_batch, faults>>

QueryNext ==
    \/ GetExpiredHtlcs

QuerySpec == QueryInit /\ [][QueryNext]_vars

\* The builder, the signer and the script functions read no table: they are
\* applied to their arguments over empty tables.
PureInit ==
    /\ htlcs = <<>>
    /\ ops = <<>>
    /\ utxos = <<>>
    /\ height = 1
    /\ pc = "tick"
    /\ batch = <<>>
    /\ ret = Applied("none", <<>>, <<>>)
    /\ calls = NoCalls
    /\ chain = {}
    /\ max_tx_per_batch = MaxTxPerBatch
    /\ faults = 0

\* what callers pass to build_htlc_tx: amounts around the dust threshold, one
\* or more UTXOs whose total is the amount plus the fee plus a margin around
\* zero and around the dust threshold, a hash lock that decodes or not, a
\* change address that decodes or not
MaxInputs == 2
Margins == {-1, 0, 1, DUST_THRESHOLD, DUST_THRESHOLD + 1}

FundingOf(amount, num_inputs, margin) ==
    [k \in 1..num_inputs |->
        IF k = 1 THEN amount + fee_for(num_inputs, 2) + margin - (num_inputs - 1) ELSE 1]

BuildRequests ==
    {[params |-> [GoodParams EXCEPT !.amount = amount, !.hash_lock = hash_lock],
      funding |-> FundingOf(amount, num_inputs, margin),
      change |-> change] :
        amount \in {DUST_THRESHOLD - 1, DUST_THRESHOLD, 100000},
        hash_lock \in {"ha", "xx"},
        num_inputs \in 1..MaxInputs,
        margin \in Margins,
        change \in {"t_ok", "bad"}}

\* TransactionBuilder::build_htlc_tx
BuildHtlcTx ==
    \E req \in BuildRequests :
        /\ ret' = Applied("build_htlc_tx", req,
                          build_htlc_tx(req.params, req.funding, req.change))
        /\ UNCHANGED <<htlcs, ops, utxos, height, pc, batch, calls, chain, max_tx_per_batch, faults>>

\* TransactionBuilder::build_refund_tx, on amounts around the fee, timelocks
\* of the model's heights and one beyond 32 bits
BuildRefundTx ==
    \E htlc_amount \in {fee_for(1, 1), 100000},
       timelock \in {U64(h) : h \in 1..MaxHeight} \union {<<0, 1, 0, 1>>},
       refund_address \in {"t_ok", "bad"} :
        /\ ret' = Applied("build_refund_tx",
                          [htlc_amount |-> htlc_amount, timelock |-> timelock,
                           refund_address |-> refund_address],
                          build_refund_tx(htlc_amount, timelock, refund_address))
        /\ UNCHANGED <<htlcs, ops, utxos, height, pc, batch, calls, chain, max_tx_per_batch, faults>>

\* TransactionSigner::sign_htlc_redeem
SignHtlcRedeem ==
    \E secret \in {"aa", "bb", "zz"}, privkey_hex \in {"k_ok", "k_bad"} :
        /\ ret' = Applied("sign_htlc_redeem",
                          [redeem_script |-> htlc_script, secret |-> secret,
                           privkey_hex |-> privkey_hex],
                          sign_htlc_redeem(0, htlc_script, secret, privkey_hex))
        /\ UNCHANGED <<htlcs, ops, utxos, height, pc, batch, calls, chain, max_tx_per_batch, faults>>

\* TransactionSigner::sign_htlc_refund
SignHtlcRefund ==
    \E privkey_hex \in {"k_ok", "k_bad"} :
        /\ ret' = Applied("sign_htlc_refund",
                          [redeem_script |-> htlc_script, privkey_hex |-> privkey_hex],
                          sign_htlc_refund(0, htlc_script, privkey_hex))
        /\ UNCHANGED <<htlcs, ops, utxos, height, pc, batch, calls, chain, max_tx_per_batch, faults>>

\* the lists of private keys a caller passes
KeyLists == UNION {[1..n -> {"k_ok", "k_ok2", "k_bad"}] : n \in 0..MaxInputs}

\* TransactionSigner::sign_htlc_creation, on a transaction of num_inputs inputs
SignHtlcCreation ==
    \E num_inputs \in 0..MaxInputs, num_scripts \in 0..MaxInputs, private_keys \in KeyLists :
        LET err == sign_htlc_creation(num_inputs, num_scripts, private_keys)
        IN  /\ ret' = Applied("sign_htlc_creation",
                              [num_inputs |-> num_inputs, num_scripts |-> num_scripts,
                               private_keys |-> private_keys],
                              [err |-> err,
                               script_sigs |-> IF err = "Ok"
                                               THEN creation_script_sigs(private_keys)
                                               ELSE <<>>])
            /\ UNCHANGED <<htlcs, ops, utxos, height, pc, batch, calls, chain, max_tx_per_batch, faults>>

\* HTLCScriptBuilder::verify_secret, on secrets that decode or not and hash
\* locks in lowercase or uppercase hex
VerifySecret ==
    \E secret \in {"aa", "AA", "bb", "zz"}, hash_lock \in {"ha", "HA", "hb"} :
        /\ ret' = Applied("verify_secret", [secret |-> secret, hash_lock |-> hash_lock],
                          [verified |-> verify_secret(secret, hash_lock)])
        /\ UNCHANGED <<htlcs, ops, utxos, height, pc, batch, calls, chain, max_tx_per_batch, faults>>

\* the addresses a caller passes: of this network's two types, of another
\* network or type, mistyped (wrong checksum), cut short, or not base58
Addresses ==
    [base58 : BOOLEAN, len : {25, 26}, prefix : {"p2pkh_prefix", "p2sh_prefix", "other"},
     hash160 : {<<"h160_a">>, <<"h160_b">>}, checksum : {"good", "bad"}]

\* TransactionBuilder::address_to_script_pubkey
AddressToScriptPubkey ==
    \E address \in Addresses :
        /\ ret' = Applied("address_to_script_pubkey", address,
                          address_to_script_pubkey(address))
        /\ UNCHANGED <<htlcs, ops, utxos, height, pc, batch, calls, chain, max_tx_per_batch, faults>>

\* the parameters of an HTLC script that builds
Networks == {"mainnet", "testnet"}

ScriptParams ==
    [recipient_pubkey : {"02aa", "02bb"}, refund_pubkey : {"03aa"},
     hash_lock : {"ha", "hb"}, timelock : 1..MaxHeight, amount : {100000}]

\* script_to_p2sh_address of the HTLC script on one network, the address given
\* to address_to_script_pubkey on a network, and p2sh_script_pubkey of the
\* script
P2shAddressOfScript ==
    \E params \in ScriptParams, network \in Networks, parsed_on \in Networks :
        LET script == build_htlc_script(params)
            address == script_to_p2sh_address(network, script)
        IN  /\ ret' = Applied("script_to_p2sh_address",
                              [params |-> params, network |-> network,
                               parsed_on |-> parsed_on],
                              [address |-> address,
                               parsed |-> address_to_script_pubkey(
                                              address_read(parsed_on, address)),
                               script_pubkey |-> p2sh_script_pubkey(script)])
            /\ UNCHANGED <<htlcs, ops, utxos, height, pc, batch, calls, chain, max_tx_per_batch, faults>>

\* the timelocks a caller passes in HTLCParams: block heights of the model,
\* the largest 32-bit value, and values beyond 32 bits
Timelocks ==
    {U64(h) : h \in 1..MaxHeight} \union {<<0, 0, 65535, 65535>>, <<0, 1, 0, 0>>, <<0, 1, 0, 1>>}

\* an HTLC of the given timelock: the number build_htlc_script embeds and the
\* refund transaction build_refund_tx returns for it
RefundTxOfTimelock ==
    \E timelock \in Timelocks :
        /\ ret' = Applied("build_refund_tx_of_script", [timelock |-> timelock],
                          [script_timelock |-> script_timelock(timelock),
                           refund |-> build_refund_tx(100000, timelock, "t_ok")])
        /\ UNCHANGED <<htlcs, ops, utxos, height, pc, batch, calls, chain, max_tx_per_batch, faults>>

PureNext ==
    \/ BuildHtlcTx
    \/ BuildRefundTx
    \/ SignHtlcRedeem
    \/ SignHtlcRefund
    \/ SignHtlcCreation
    \/ VerifySecret
    \/ AddressToScriptPubkey
    \/ P2shAddressOfScript
    \/ RefundTxOfTimelock

PureSpec == PureInit /\ [][PureNext]_vars

\* ---------------------------------------------- the relayer, scheduled
\* The relayer alone on a store of Locked rows whose timelocks the chain
\* reaches: its loop runs whenever it can (each tick of the interval fires and
\* each call it awaits returns), and the calls on the node and on the store
\* fail MaxFaults times at most.
MaxExpired == 2

LockedTables ==
    UNION {{[i \in 1..n |-> RowIn(i, Locked, timelock[i])] :
               timelock \in [1..n -> 1..(MaxHeight - 1)]} : n \in 1..MaxExpired}

LiveInit ==
    /\ htlcs \in LockedTables
    /\ ops = <<>>
    /\ utxos = <<>>
    /\ height = 1
    /\ pc = "tick"
    /\ batch = <<>>
    /\ ret = NoCall
    /\ calls = NoCalls
    /\ chain = {}
    /\ max_tx_per_batch = MaxTxPerBatch
    /\ faults = 0

\* one step of run(): the tick, a step of the batch, or a call of refund_htlc
\* on the store or on the node
RelayerStep ==
    \/ run_tick
    \/ sync_utxos_step
    \/ process_pending_htlc_creations_step
    \/ process_pending_redemptions_step
    \/ process_expired_htlcs_step
    \/ refund_begin
    \/ refund_match
    \/ do_get_block_count("relayer")
    \/ do_create_operation("relayer")
    \/ do_send_raw_transaction("relayer")
    \/ do_update_htlc_state("relayer")
    \/ do_update_operation_broadcast("relayer")

LiveNext ==
    \/ NewBlock
    \/ RelayerStep

LiveSpec == LiveInit /\ [][LiveNext]_vars /\ WF_vars(RelayerStep)

\* ------------------------------------------- the relayer funding, scheduled
\* The relayer alone with one pending row that nobody else touches and a hot
\* wallet of one UTXO that covers it: no request arrives, no block is mined,
\* the loop runs whenever it can and every call returns, failing MaxFaults
\* times at most.
FundInit ==
    /\ htlcs = SubSeq(Seeded(<<100000, 40000>>).htlcs, 1, 1)
    /\ ops = SubSeq(Seeded(<<100000, 40000>>).ops, 1, 1)
    /\ utxos = SubSeq(Wallet, 1, 1)
    /\ height = 1
    /\ pc = "tick"
    /\ batch = <<>>
    /\ ret = NoCall
    /\ calls = NoCalls
    /\ chain = {}
    /\ max_tx_per_batch = MaxTxPerBatch
    /\ faults = 0

\* one step of run() while funding: the tick, a step of the batch, or a call
\* of create_htlc on the store or on the node
FundingStep ==
    \/ run_tick
    \/ sync_utxos_step
    \/ process_pending_htlc_creations_step
    \/ creation_begin
    \/ creation_match
    \/ process_pending_redemptions_step
    \/ process_expired_htlcs_step
    \/ do_create_htlc("relayer")
    \/ do_create_operation("relayer")
    \/ do_send_raw_transaction("relayer")
    \/ do_update_htlc_txid("relayer")
    \/ do_update_operation_broadcast("relayer")

FundNext ==
    \/ FundingStep

FundSpec == FundInit /\ [][FundNext]_vars /\ WF_vars(FundingStep)

\* ------------------------------------------ the relayer redeeming, by step
\* The relayer alone on Locked rows whose timelocks pass as blocks arrive, some
\* of them carrying a pre-signed redemption.
SignedTables ==
    {[i \in DOMAIN H |-> [H[i] EXCEPT !.signed_redeem_tx = signed[i]]] :
        H \in LockedTables, signed \in [1..MaxExpired -> SignedTxs \cup {NULL}]}

RedeemInit ==
    /\ htlcs \in SignedTables
    /\ ops = <<>>
    /\ utxos = <<>>
    /\ height = 1
    /\ pc = "tick"
    /\ batch = <<>>
    /\ ret = NoCall
    /\ calls = NoCalls
    /\ chain = {}
    /\ max_tx_per_batch = MaxTxPerBatch
    /\ faults = 0

\* the pre-signed redemption of HTLC id, accepted by the node
AcceptedRedemption(id) == [tx |-> "signed_redeem_tx", id |-> id, inputs |-> {}]

\* process_pending_redemptions, the Ok(txid) arm:
\* let _ = self.database.update_htlc_state(&htlc.id, HTLCState::Redeemed)
redeemed_ignoring_result(H, id, ok) == IF ok THEN update_htlc_state(H, id, Redeemed) ELSE H

\* process_pending_redemptions, one turn of the loop: a row without a signed
\* transaction is passed over; broadcast_raw_tx(&signed_tx).await, then Ok(txid)
\* writes Redeemed and Err(e) is logged
redemption_turn ==
    /\ pc = "redemptions_loop"
    /\ LET htlc == Head(batch)
       IN  IF htlc.signed_redeem_tx = NULL
           THEN /\ ret' = StepCall("relayer", "process_pending_redemptions", htlc.id, "None")
                /\ UNCHANGED <<htlcs, chain, faults>>
           ELSE \E sendOk \in Answers :
                \E ok \in IF sendOk THEN Answers ELSE {TRUE} :
                    /\ Fault(sendOk /\ ok)
                    /\ chain' = IF sendOk THEN chain \cup {AcceptedRedemption(htlc.id)} ELSE chain
                    /\ htlcs' = IF sendOk THEN redeemed_ignoring_result(htlcs, htlc.id, ok)
                                ELSE htlcs
                    /\ ret' = StepCall("relayer", "broadcast_raw_tx", htlc.id,
                                       IF sendOk THEN "Ok" ELSE "RpcError")
    /\ batch' = Tail(batch)
    /\ pc' = After(batch', "redemptions_loop", logged("Ok", "refunds"))
    /\ UNCHANGED <<ops, utxos, height, calls, max_tx_per_batch>>

RedeemNext ==
    \/ NewBlock
    \/ RelayerStep
    \/ redemption_turn

RedeemSpec == RedeemInit /\ [][RedeemNext]_vars

\* ------------------------------------------------ wait_for_confirmations
\* One call of wait_for_confirmations(txid, required_confirmations,
\* max_attempts): ret holds the arguments, the attempt the loop is at, what each
\* poll of get_transaction_confirmations answered (None for an Err) and what
\* the call returned; pc is the position in the loop.
MaxAttempts == 3

Waiting(required_confirmations, max_attempts, attempt, polls, err, confirmations) ==
    Applied("wait_for_confirmations",
            [required_confirmations |-> required_confirmations,
             max_attempts |-> max_attempts],
            [attempt |-> attempt, polls |-> polls, err |-> err,
             confirmations |-> confirmations])

WaitInit ==
    /\ \E required_confirmations \in 0..(MaxConfirmations + 1), max_attempts \in 0..MaxAttempts :
          ret = Waiting(required_confirmations, max_attempts, 1, <<>>, "none", None)
    /\ pc = "wait_loop"
    /\ htlcs = <<>>
    /\ ops = <<>>
    /\ utxos = <<>>
    /\ height = 1
    /\ batch = <<>>
    /\ calls = NoCalls
    /\ chain = {}
    /\ max_tx_per_batch = MaxTxPerBatch
    /\ faults = 0

\* the test with > in place of >=
confirmed_strictly(confirmations, required_confirmations) ==
    confirmations > required_confirmations

\* if confirmations >= required_confirmations { return Ok(confirmations) }
confirmed(confirmations, required_confirmations) ==
    confirmations >= required_confirmations

\* for attempt in 1..=max_attempts: one turn, the poll and the match on it
wait_poll ==
    /\ pc = "wait_loop"
    /\ ret.result.attempt <= ret.args.max_attempts
    /\ \E answer \in {None} \union (0..(MaxConfirmations + 1)) :
        LET polls == Append(ret.result.polls, answer)
        IN  IF answer # None /\ confirmed(answer, ret.args.required_confirmations)
            THEN /\ ret' = [ret EXCEPT !.result.polls = polls, !.result.err = "Ok",
                                        !.result.confirmations = answer]
                 /\ pc' = "wait_done"
            ELSE /\ ret' = [ret EXCEPT !.result.polls = polls]
                 /\ pc' = "wait_sleep"
    /\ UNCHANGED <<htlcs, ops, utxos, height, batch, calls, chain, max_tx_per_batch, faults>>

\* tokio::time::sleep(30 s) returns and the loop takes the next attempt
wait_sleep ==
    /\ pc = "wait_sleep"
    /\ ret' = [ret EXCEPT !.result.attempt = @ + 1]
    /\ pc' = "wait_loop"
    /\ UNCHANGED <<htlcs, ops, utxos, height, batch, calls, chain, max_tx_per_batch, faults>>

\* the range is exhausted: Err(ConfirmationTimeout { txid, attempts })
wait_timeout ==
    /\ pc = "wait_loop"
    /\ ret.result.attempt > ret.args.max_attempts
    /\ ret' = [ret EXCEPT !.result.err = "ConfirmationTimeout"]
    /\ pc' = "wait_done"
    /\ UNCHANGED <<htlcs, ops, utxos, height, batch, calls, chain, max_tx_per_batch, faults>>

WaitNext ==
    \/ wait_poll
    \/ wait_sleep
    \/ wait_timeout

\* every poll answers or fails within the HTTP client's timeout and every
\* sleep ends
WaitSpec == WaitInit /\ [][WaitNext]_vars /\ WF_vars(WaitNext)

\* ------------------------------------------------------------------ claims
Rows == 1..Len(htlcs)

\* the row has its funding outpoint: txid and vout are both non-null
HasOutpoint(htlc) == htlc.txid # None /\ htlc.vout # None

\* C1, as stated: every row whose state is Locked, Redeemed, Refunded, Expired
\* or Failed (state >= 1) has a non-null txid and a non-null vout.
C1_StateAtLeastLockedHasOutpoint ==
    \A i \in Rows : htlcs[i].state >= Locked => HasOutpoint(htlcs[i])

\* C1, amended: every row whose state is Locked, Redeemed, Refunded or Expired
\* has a non-null txid and a non-null vout; a Failed row may have neither.
C1_FundedStatesHaveOutpoint ==
    \A i \in Rows :
        htlcs[i].state \in {Locked, Redeemed, Refunded, Expired} => HasOutpoint(htlcs[i])

\* a Failed row without an outpoint next to a Redeemed or Refunded row with one
C1_Witness ==
    \E i, j \in Rows :
        /\ htlcs[i].state = Failed /\ ~HasOutpoint(htlcs[i])
        /\ htlcs[j].state \in {Redeemed, Refunded} /\ HasOutpoint(htlcs[j])

\* C2: once a row is Redeemed or Refunded, no step changes its state to a
\* different value.
C2_TerminalStatesAreFinal ==
    [][\A i \in Rows :
          htlcs[i].state \in {Redeemed, Refunded} => htlcs'[i].state = htlcs[i].state]_vars

\* the row i is Locked after the step and was not before it (absent or in
\* another state)
BecomesLocked(i) ==
    /\ htlcs'[i].state = Locked
    /\ (i > Len(htlcs) \/ htlcs[i].state # Locked)

Matches(secret, hash_lock) == hex_ok(secret) /\ sha256_hex(secret) = hash_lock

\* C4: every step that makes a row Redeemed, in redeem_htlc or in the relayer's
\* pre-signed redemption step, is for a row whose secret has been verified
\* against its hash lock: the row holds a secret with SHA-256(secret) =
\* hash_lock after the step.
C4_RedeemedOnlyWithVerifiedSecret ==
    [][\A i \in Rows :
          (htlcs[i].state # Redeemed /\ htlcs'[i].state = Redeemed) =>
              Matches(htlcs'[i].secret, htlcs'[i].hash_lock)]_vars

\* the step is a call of the coordinator's operation call for a row that exists
Calls(call) == ret'.call = call /\ HasRow(htlcs, ret'.id)

\* C5: redeem_htlc for a row that is not Locked returns an error, broadcasts
\* nothing, creates no operation row and leaves the HTLC rows as they were.
C5_RedeemRequiresLocked ==
    [][(Calls("redeem_htlc") /\ htlcs[ret'.id].state # Locked) =>
          /\ ret'.result # "Ok"
          /\ ~ret'.sent
          /\ ops' = ops
          /\ htlcs' = htlcs]_vars

\* C6: refund_htlc for a row that is not Locked returns an error, broadcasts
\* nothing and leaves the HTLC rows as they were, whatever the block height.
C6_RefundRequiresLocked ==
    [][(Calls("refund_htlc") /\ htlcs[ret'.id].state # Locked) =>
          /\ ret'.result # "Ok"
          /\ ~ret'.sent
          /\ htlcs' = htlcs]_vars

\* C7: refund_htlc for a Locked row, once the node has answered with its block
\* height: below the timelock (timelock - 1 included) it fails with
\* TimelockNotExpired {current, required = timelock} and leaves the HTLC rows and
\* the operation log unchanged; from the timelock on it does not, and a
\* successful broadcast leaves the row Refunded.
C7_RefundTimelockBoundary ==
    [][(Calls("refund_htlc") /\ htlcs[ret'.id].state = Locked /\ ret'.current # None) =>
          LET htlc == htlcs[ret'.id]
          IN  /\ ret'.current = height
              /\ ret'.current < htlc.timelock =>
                     /\ ret'.result = "TimelockNotExpired"
                     /\ ret'.required = htlc.timelock
                     /\ ~ret'.built /\ ~ret'.sent
                     /\ htlcs' = htlcs
                     /\ ops' = ops
              /\ ret'.current >= htlc.timelock =>
                     /\ ret'.result # "TimelockNotExpired"
                     /\ (ret'.sent /\ ret'.result = "Ok") =>
                            htlcs'[ret'.id].state = Refunded]_vars

\* the operation rows of kind type that belong to HTLC id
OpsOf(id, type) ==
    {k \in 1..Len(ops) : ops[k].htlc_id = id /\ ops[k].operation_type = type}

\* the first refund of a row that was never redeemed succeeds at block height
\* = timelock
C7_Witness ==
    /\ ret.call = "refund_htlc" /\ ret.result = "Ok"
    /\ ret.current = htlcs[ret.id].timelock
    /\ htlcs[ret.id].state = Refunded
    /\ htlcs[ret.id].secret = NULL /\ htlcs[ret.id].signed_redeem_tx = NULL
    /\ Cardinality(OpsOf(ret.id, "refund")) = 1

\* C8: redeem_htlc with a secret whose SHA-256 differs from the row's hash lock
\* returns InvalidSecret and, whatever the row's state, builds no transaction,
\* broadcasts nothing, creates no operation row and leaves the HTLC rows as they
\* were.
C8_WrongSecretChangesNothing ==
    [][(Calls("redeem_htlc") /\ ~Matches(ret'.secret, htlcs[ret'.id].hash_lock)) =>
          /\ ret'.result = "InvalidSecret"
          /\ ~ret'.built /\ ~ret'.sent
          /\ ops' = ops
          /\ htlcs' = htlcs]_vars

\* redeem_htlc of a Locked row with the well-formed secret of another hash lock
\* returned InvalidSecret
C8_Witness ==
    /\ ret.call = "redeem_htlc" /\ ret.result = "InvalidSecret"
    /\ ret.secret = "bb"
    /\ HasRow(htlcs, ret.id)
    /\ htlcs[ret.id].state = Locked /\ htlcs[ret.id].hash_lock = "ha"

\* C9: when the broadcast inside create_htlc fails, the row the call inserted
\* ends Failed and its create operation ends with status failed and an error
\* message.
C9_FailedCreateBroadcastMarksFailed ==
    (ret.call = "create_htlc" /\ ret.sent /\ ret.result = "RpcError") =>
        /\ htlcs[ret.id].state = Failed
        /\ OpsOf(ret.id, "create") # {}
        /\ \A k \in OpsOf(ret.id, "create") :
               ops[k].status = "failed" /\ ops[k].error_message # NULL

\* C10: when the broadcast inside redeem_htlc or refund_htlc fails, the HTLC
\* rows are left exactly as they were, so that every request the broadcast
\* failed for goes through when it is made again and the broadcast succeeds.
C10_FailedSpendBroadcastLeavesRow ==
    [][(ret'.call \in {"redeem_htlc", "refund_htlc"} /\ ret'.sent
            /\ ret'.result = "RpcError") =>
          /\ htlcs' = htlcs
          /\ ret'.call = "redeem_htlc" =>
                 \A req \in RedeemRequests :
                     redeem_htlc(htlcs, ops, ret'.id, req.secret, req.address, req.key,
                                 FALSE).sent
                     => redeem_htlc(htlcs', ops', ret'.id, req.secret, req.address,
                                    req.key, TRUE).result = "Ok"
          /\ ret'.call = "refund_htlc" =>
                 \A req \in RefundRequests :
                     refund_htlc(htlcs, ops, ret'.id, req.address, req.key,
                                 ret'.current, FALSE).sent
                     => refund_htlc(htlcs', ops', ret'.id, req.address, req.key,
                                    ret'.current, TRUE).result = "Ok"]_vars

\* the broadcast of redeem_htlc failed for a Locked row, which is still Locked
\* and without a secret
C10_Witness ==
    /\ ret.call = "redeem_htlc" /\ ret.sent /\ ret.result = "RpcError"
    /\ htlcs[ret.id].state = Locked /\ htlcs[ret.id].secret = NULL

SignedIds(H, limit) ==
    LET rows == get_htlcs_with_signed_redeem_tx(H, limit)
    IN  {rows[k].id : k \in 1..Len(rows)}

\* the relayer's step broadcast the stored transaction of a row
Redemption == ret'.call = "broadcast_raw_tx"

\* C19, as stated: in the pre-signed redemption step a row becomes Redeemed only
\* when the broadcast succeeded; when it fails, a Locked row stays Locked with
\* its signed_redeem_tx and get_htlcs_with_signed_redeem_tx returns it again.
C19_FailedRedemptionIsReturnedAgain ==
    [][Redemption =>
          /\ htlcs'[ret'.id].state # htlcs[ret'.id].state => ret'.result = "Ok"
          /\ (ret'.result # "Ok" /\ htlcs[ret'.id].state = Locked) =>
                 /\ htlcs' = htlcs
                 /\ htlcs'[ret'.id].signed_redeem_tx # NULL
                 /\ ret'.id \in SignedIds(htlcs', max_tx_per_batch)]_vars

\* C19, amended: in the pre-signed redemption step a row becomes Redeemed only
\* when the broadcast succeeded; when it fails, a Locked row stays Locked with
\* its signed_redeem_tx, so that it still passes the filter of
\* get_htlcs_with_signed_redeem_tx, which returns it again unless at least
\* max_tx_per_batch older rows pass the filter too.
C19_FailedRedemptionStaysEligible ==
    [][Redemption =>
          /\ htlcs'[ret'.id].state # htlcs[ret'.id].state =>
                 ret'.result = "Ok" /\ htlcs'[ret'.id].state = Redeemed
          /\ (ret'.result # "Ok" /\ htlcs[ret'.id].state = Locked) =>
                 /\ htlcs' = htlcs
                 /\ htlcs'[ret'.id].signed_redeem_tx # NULL
                 /\ ret'.id \in SignedIds(htlcs', Len(htlcs'))
                 /\ \/ ret'.id \in SignedIds(htlcs', max_tx_per_batch)
                    \/ Cardinality({j \in SignedIds(htlcs', Len(htlcs')) : j < ret'.id})
                           >= max_tx_per_batch]_vars

\* the broadcast of a Locked row's stored transaction failed and the row is
\* still Locked with the transaction, behind an older row that has one too
C19_Witness ==
    /\ ret.call = "broadcast_raw_tx" /\ ret.result = "RpcError"
    /\ htlcs[ret.id].state = Locked /\ htlcs[ret.id].signed_redeem_tx # NULL
    /\ ret.id \notin SignedIds(htlcs, max_tx_per_batch)

\* C14: the spent flag of a relayer UTXO row only goes from false to true:
\* whatever create_relayer_utxo (of a new or of an existing (txid, vout)),
\* mark_utxo_spent and update_utxo_confirmations do, a row that is spent is
\* still there, with its key, and spent after the step.
C14_SpentIsNeverCleared ==
    [][\A i \in 1..Len(utxos) :
          utxos[i].spent =>
              /\ i <= Len(utxos')
              /\ HasKey(utxos'[i], utxos[i].txid, utxos[i].vout)
              /\ utxos'[i].spent]_vars

\* create_relayer_utxo was called for the (txid, vout) of a row that is spent
C14_Witness ==
    /\ ret.call = "create_relayer_utxo"
    /\ \E i \in 1..Len(utxos) : utxos[i].txid = ret.id /\ utxos[i].spent

\* the create_htlc calls in progress
Creating == {p \in Procs : calls[p].op = "create_htlc" /\ calls[p].todo # <<>>}

\* the store holds the row of the call in Pending with null txid and vout
RowIsPending(c) ==
    /\ HasRow(htlcs, c.htlc_id)
    /\ htlcs[c.htlc_id].state = Pending
    /\ htlcs[c.htlc_id].txid = None
    /\ htlcs[c.htlc_id].vout = None

\* the store holds the Create operation of the call in status Signed
OperationIsSigned(c) ==
    /\ c.operation_id \in 1..Len(ops)
    /\ ops[c.operation_id].htlc_id = c.htlc_id
    /\ ops[c.operation_id].operation_type = "create"
    /\ ops[c.operation_id].status = "signed"

\* the node accepted the funding transaction of row id
FundingBroadcast(id) == \E t \in chain : t.tx = "funding_tx" /\ t.id = id

\* C12: create_htlc inserts the row in Pending with null txid and vout, then the
\* Create operation in status Signed, then broadcasts, then sets the row Locked
\* with the returned txid and vout = 0, then the operation to Broadcast: a call
\* about to broadcast has both rows in the store, a row has a txid (and is
\* Locked) only if its funding transaction was accepted, a Create operation is
\* Broadcast only if its row already has the txid, and an operation row never
\* precedes its HTLC row.
C12_CreateHtlcOrder ==
    /\ \A p \in Creating :
        /\ Head(calls[p].todo) = "create_operation" => RowIsPending(calls[p])
        /\ Head(calls[p].todo) = "send_raw_transaction" =>
              RowIsPending(calls[p]) /\ OperationIsSigned(calls[p])
        /\ Head(calls[p].todo) = "update_htlc_txid" =>
              RowIsPending(calls[p]) /\ OperationIsSigned(calls[p])
              /\ FundingBroadcast(calls[p].htlc_id)
    /\ \A i \in Rows :
        /\ htlcs[i].state = Locked \/ htlcs[i].txid # None =>
              /\ FundingBroadcast(i)
              /\ htlcs[i].txid = FundingTxid(i)
              /\ htlcs[i].vout = 0
              /\ htlcs[i].state # Pending
    /\ \A k \in 1..Len(ops) :
        /\ HasRow(htlcs, ops[k].htlc_id)
        /\ ops[k].operation_type = "create" /\ ops[k].status = "broadcast" =>
              /\ htlcs[ops[k].htlc_id].txid = ops[k].txid
              /\ htlcs[ops[k].htlc_id].state # Pending

\* a create_htlc call made all its calls: the row is Locked and the operation
\* Broadcast
C12_Witness ==
    /\ ret.call = "update_operation_broadcast"
    /\ ret.result = "Ok"
    /\ calls["relayer"].op = "create_htlc"
    /\ calls["relayer"].result = "Ok"
    /\ htlcs[calls["relayer"].htlc_id].state = Locked
    /\ ops[calls["relayer"].operation_id].status = "broadcast"

\* C13: while a create_htlc call is between its broadcast and the write of
\* Locked, the store holds the row in Pending and a Create operation in status
\* Signed whose signed_tx_hex is the serialized signed funding transaction.
C13_SignedHexStoredBeforeLocked ==
    \A p \in Creating :
        Head(calls[p].todo) = "update_htlc_txid" =>
            /\ RowIsPending(calls[p])
            /\ \E k \in 1..Len(ops) :
                /\ ops[k].htlc_id = calls[p].htlc_id
                /\ ops[k].operation_type = "create"
                /\ ops[k].status = "signed"
                /\ ops[k].signed_tx_hex = "funding_tx"

\* the relayer calls create_htlc in this step
RelayerCallsCreate == calls["relayer"].op = "idle" /\ calls'["relayer"].op = "create_htlc"

\* C15: every UTXO the relayer passes to create_htlc is, in relayer_utxos as
\* read in that turn of the loop, unspent with at least one confirmation, for
\* every HTLC of the tick.
C15_SelectedUtxosAreSpendable ==
    [][RelayerCallsCreate =>
        /\ calls'["relayer"].inputs # <<>>
        /\ \A k \in 1..Len(calls'["relayer"].inputs) :
            /\ ~utxos[calls'["relayer"].inputs[k]].spent
            /\ utxos[calls'["relayer"].inputs[k]].confirmations >= 1]_vars

\* the second HTLC of a tick is in its create_htlc call, with inputs, after the
\* first one of the same batch spent a UTXO
C15_Witness ==
    /\ pc = "creation_call"
    /\ Len(htlcs) >= 3
    /\ Head(batch).id = 2
    /\ htlcs[1].state = Pending
    /\ htlcs[3].state = Locked
    /\ calls["relayer"].op = "create_htlc"
    /\ calls["relayer"].inputs # <<>>
    /\ \E i \in 1..Len(utxos) : utxos[i].spent

\* C16: no relayer UTXO is an input of two different funding transactions that
\* the node both accepted.
C16_NoUtxoFundsTwoBroadcasts ==
    \A a \in chain, b \in chain :
        a.tx = "funding_tx" /\ b.tx = "funding_tx" /\ a.id # b.id =>
            a.inputs \cap b.inputs = {}

\* C17: of the spends of one HTLC outpoint (its redeem and its refund), the node
\* accepted at most one.
C17_OneSpendPerOutpoint ==
    \A a \in chain, b \in chain :
        a.tx # "funding_tx" /\ b.tx # "funding_tx" /\ a.id = b.id => a = b

\* the turn of the creation loop found no UTXO, or not enough of them
NotFunded == ret'.by = "relayer" /\ ret'.result \in {"NoUtxos", "InsufficientUtxos"}

\* C18: when the hot wallet has no UTXO or the selected ones are insufficient
\* for a pending HTLC, the row stays Pending and the relayer goes on with the
\* rest of the batch.
C18_UnfundedHtlcIsSkipped ==
    [][NotFunded /\ pc = "creations_loop" =>
        /\ htlcs'[Head(batch).id].state = Pending
        /\ batch' = Tail(batch)]_vars

\* the step of run() the relayer is in: the tick, sync_utxos,
\* process_pending_htlc_creations, process_pending_redemptions,
\* process_expired_htlcs
StepOf(at) ==
    IF at = "tick" THEN 0
    ELSE IF at = "sync" THEN 1
    ELSE IF at \in {"creations", "creations_loop", "creation_call"} THEN 2
    ELSE IF at \in {"redemptions", "redemptions_loop"} THEN 3
    ELSE IF at \in {"refunds", "refunds_loop", "refund_call"} THEN 4
    ELSE 5

\* the step of run() that follows, the next tick after the last one
Following(step) == (step + 1) % 5

\* a step of run() returned an error
StepFailed ==
    /\ ret'.by = "relayer"
    /\ ret'.call \in {"sync_utxos", "process_pending_htlc_creations",
                     "process_pending_redemptions", "process_expired_htlcs"}
    /\ ret'.result # "Ok"

\* C20: the relayer is in one step at a time and moves from a step only to the
\* following one, sync, creations, redemptions, refunds and then the next
\* tick; a step that returns an error is followed by the following step.
C20_StepsInOrderDespiteErrors ==
    [][/\ StepOf(pc) < 5
       /\ StepOf(pc') \in {StepOf(pc), Following(StepOf(pc))}
       /\ StepFailed => StepOf(pc') = Following(StepOf(pc))]_vars

\* process_pending_htlc_creations returned an error and the relayer is at the
\* redemptions of the same tick
C20_Witness ==
    /\ ret.by = "relayer"
    /\ ret.call = "process_pending_htlc_creations"
    /\ ret.result = "InsufficientUtxos"
    /\ pc = "redemptions"

\* the ids of the rows a query returned
IdsOf(rows) == {rows[k].id : k \in 1..Len(rows)}

\* C22: get_expired_htlcs(current_block) returns exactly the rows with state
\* Locked and timelock < current_block, each once, and every row it returns
\* passes refund_htlc's timelock check at every height >= current_block.
C22_ExpiredAreLockedAndRefundable ==
    ret.call = "get_expired_htlcs" =>
        /\ IdsOf(ret.result) =
              {i \in Rows : htlcs[i].state = Locked
                            /\ htlcs[i].timelock < ret.args.current_block}
        /\ Len(ret.result) = Cardinality(IdsOf(ret.result))
        /\ \A i \in IdsOf(ret.result) :
              \A at \in ret.args.current_block..(MaxHeight + 1) :
                  ~timelock_not_expired(at, htlcs[i].timelock)

\* the query returned a Locked row and left out a Redeemed row whose timelock
\* has passed as well
C22_Witness ==
    /\ ret.call = "get_expired_htlcs"
    /\ Len(ret.result) = 1
    /\ \E i \in Rows : htlcs[i].state = Redeemed
                       /\ htlcs[i].timelock < ret.args.current_block

\* the last call was build_htlc_tx and it returned a transaction
Built == ret.call = "build_htlc_tx" /\ ret.result.err = "Ok"

\* of the last build_htlc_tx call: the total of the inputs, the fee the builder
\* computed, the total of the outputs, and what is left of the inputs after
\* the outputs and that fee
TotalIn == Sum(ret.args.funding)
BuilderFee == fee_for(Len(ret.args.funding), 2)
TotalOut == Sum([k \in 1..Len(ret.result.outputs) |-> ret.result.outputs[k].value])
Unaccounted == TotalIn - TotalOut - BuilderFee

\* C23, as stated: for every funding transaction build_htlc_tx returns, the sum
\* of the inputs equals the sum of the outputs plus the fee the builder
\* computed, also when no change output is emitted.
C23_InputsEqualOutputsPlusFee == Built => TotalIn = TotalOut + BuilderFee

\* C23, amended: the sum of the inputs equals the sum of the outputs plus the
\* computed fee when a change output is emitted; without a change output the
\* inputs exceed outputs plus computed fee by the change, which is between 0
\* and the dust threshold.
C23_InputsEqualOutputsPlusFeePlusDust ==
    Built =>
        /\ Len(ret.result.outputs) = 2 => Unaccounted = 0
        /\ Len(ret.result.outputs) = 1 =>
              Unaccounted \in 0..DUST_THRESHOLD
              /\ Unaccounted = TotalIn - ret.args.params.amount - BuilderFee

\* a transaction without change output whose inputs exceed outputs plus fee
C23_Witness == Built /\ Len(ret.result.outputs) = 1 /\ Unaccounted = 1

\* C24: a funding transaction has the HTLC output of value amount at index 0,
\* and a change output at index 1, of the value of the change, if and only if
\* total - amount - fee > 546; otherwise it has exactly one output.
C24_OutputsOfFundingTx ==
    Built =>
        LET outputs == ret.result.outputs
            change == TotalIn - ret.args.params.amount - BuilderFee
        IN  /\ Len(outputs) \in {1, 2}
            /\ outputs[1] = [value |-> ret.args.params.amount, to |-> "p2sh"]
            /\ Len(outputs) = 2 <=> change > 546
            /\ Len(outputs) = 2 => outputs[2] = [value |-> change, to |-> "change"]

\* a transaction whose change is exactly 546: one output
C24_Witness ==
    /\ Built
    /\ TotalIn - ret.args.params.amount - BuilderFee = 546
    /\ Len(ret.result.outputs) = 1

\* the last call was build_htlc_tx and it failed with InsufficientFunds whose
\* fields are amount + fee and the total
InsufficientFunds ==
    /\ ret.result.err = "InsufficientFunds"
    /\ ret.result.required = ret.args.params.amount + BuilderFee
    /\ ret.result.available = TotalIn

C26_RefundTxEnforcesLockTime ==
    ret.call = "build_refund_tx" /\ ret.result.err = "Ok" =>
        /\ u32_as_u64(ret.result.lock_time) = ret.args.timelock
        /\ ret.result.sequence # <<65535, 65535>>

\* C27: the script_sig set by sign_htlc_redeem is the items push(signature),
\* push(secret bytes), OP_TRUE, push(redeem script), and the one set by
\* sign_htlc_refund is push(signature), OP_FALSE, push(redeem script): the
\* unlocking items are separate items of the script_sig, not one data push.
C27_ScriptSigItems ==
    /\ ret.call = "sign_htlc_redeem" /\ ret.result.err = "Ok" =>
          ret.result.script_sig =
              <<push_slice(sign_input(0, ret.args.privkey_hex)),
                push_slice(hex_decode(ret.args.secret)),
                push_opcode("OP_TRUE"),
                push_slice(as_bytes(ret.args.redeem_script))>>
    /\ ret.call = "sign_htlc_refund" /\ ret.result.err = "Ok" =>
          ret.result.script_sig =
              <<push_slice(sign_input(0, ret.args.privkey_hex)),
                push_opcode("OP_FALSE"),
                push_slice(as_bytes(ret.args.redeem_script))>>

\* of the last sign_htlc_creation call: the three counts are equal, and every
\* input has the script_sig push(signature by key i) push(public key of key i)
CountsEqual ==
    /\ ret.args.num_inputs = ret.args.num_scripts
    /\ ret.args.num_inputs = Len(ret.args.private_keys)

EveryInputSigned ==
    /\ ret.result.err = "Ok"
    /\ Len(ret.result.script_sigs) = ret.args.num_inputs
    /\ \A i \in 1..ret.args.num_inputs :
          ret.result.script_sigs[i] =
              <<push_slice(sign_input(i - 1, ret.args.private_keys[i])),
                push_slice(pubkey_of(ret.args.private_keys[i]))>>

\* C28, as stated: sign_htlc_creation returns MismatchedInputs, signing
\* nothing, whenever the numbers of inputs, input scripts and private keys are
\* not all equal; when they are equal every input i gets the script_sig
\* push(signature i) push(public key i) of private key i.
C28_SignsEveryInputOrMismatch ==
    ret.call = "sign_htlc_creation" =>
        /\ ~CountsEqual => ret.result.err = "MismatchedInputs" /\ ret.result.script_sigs = <<>>
        /\ CountsEqual => EveryInputSigned

\* C28, amended: the same when every private key parses; with equal counts and
\* a key that does not parse the call returns InvalidPrivateKey and no
\* transaction.
C28_SignsEveryInputOrMismatchOrBadKey ==
    ret.call = "sign_htlc_creation" =>
        /\ ~CountsEqual => ret.result.err = "MismatchedInputs" /\ ret.result.script_sigs = <<>>
        /\ CountsEqual =>
              IF \A i \in 1..Len(ret.args.private_keys) : privkey_ok(ret.args.private_keys[i])
              THEN EveryInputSigned
              ELSE ret.result.err = "InvalidPrivateKey" /\ ret.result.script_sigs = <<>>

\* two inputs signed by two different keys
C28_Witness ==
    /\ ret.call = "sign_htlc_creation"
    /\ ret.args.num_inputs = 2
    /\ ret.args.private_keys = <<"k_ok", "k_ok2">>
    /\ EveryInputSigned

\* a hex string in lowercase
LowerHex(h) == IF h = "HA" THEN "ha" ELSE IF h = "AA" THEN "aa" ELSE h

\* C29: verify_secret(secret, hash_lock) is true exactly when the secret is
\* valid hex and the hex of the SHA-256 of its bytes equals hash_lock, compared
\* without regard to case; it is false for a secret that is not hex and for a
\* secret whose hash differs.
C29_VerifySecretIgnoresCase ==
    ret.call = "verify_secret" =>
        (ret.result.verified <=>
            /\ hex_ok(ret.args.secret)
            /\ LowerHex(sha256_hex(ret.args.secret)) = LowerHex(ret.args.hash_lock))

\* C30: address_to_script_pubkey rejects every address whose 4-byte checksum is
\* wrong; it returns a P2PKH or P2SH script only for an address with a right
\* checksum and this network's P2PKH or P2SH prefix, and UnsupportedAddressType
\* for an address of another prefix.
C30_AddressChecksumAndPrefix ==
    ret.call = "address_to_script_pubkey" =>
        /\ ret.args.checksum = "bad" => ret.result.err # "Ok"
        /\ ret.result.err = "Ok" =>
              /\ ret.args.checksum = "good"
              /\ ret.args.prefix \in {"p2pkh_prefix", "p2sh_prefix"}
              /\ Len(ret.result.script) = IF ret.args.prefix = "p2pkh_prefix" THEN 5 ELSE 3
        /\ ret.args.base58 /\ ret.args.len = 26 /\ ret.args.checksum = "good"
              /\ ret.args.prefix = "other" => ret.result.err = "UnsupportedAddressType"

\* row i is Locked and the chain is past its timelock
LockedPastTimelock(i) ==
    i <= Len(htlcs) /\ htlcs[i].state = Locked /\ htlcs[i].timelock < height

\* the relayer's match on a refund_htlc that returned an error: the row is
\* Locked afterwards, or the error came after update_htlc_state and the row is
\* Refunded; after an error of the node it is Locked
FailedRefundKeepsRow ==
    (pc = "refund_call" /\ pc' # "refund_call" /\ calls["relayer"].result # "Ok") =>
        LET id == calls["relayer"].htlc_id
        IN  /\ htlcs'[id].state \in {Locked, Refunded}
            /\ htlcs'[id].state = htlcs[id].state
            /\ calls["relayer"].result = "RpcError" => htlcs'[id].state = Locked

C31_P2shAddressRoundTrip ==
    ret.call = "script_to_p2sh_address" /\ ret.args.network = ret.args.parsed_on =>
        /\ ret.result.parsed.err = "Ok"
        /\ ret.result.parsed.script = ret.result.script_pubkey
        /\ ret.result.parsed.script[2].data = hash160(as_bytes(build_htlc_script(ret.args.params)))

\* the address of a testnet script with hash lock "hb", read back on testnet
C31_Witness ==
    /\ ret.call = "script_to_p2sh_address"
    /\ ret.args.network = "testnet" /\ ret.args.parsed_on = "testnet"
    /\ ret.args.params.hash_lock = "hb"
    /\ ret.result.parsed.err = "Ok"
    /\ Len(ret.result.address.bytes) = 26

\* C32: the fee build_htlc_tx computes for a transaction it returns is
\* 10 + 180 * |inputs| + 34 * |outputs| zatoshis, with the numbers of inputs and
\* outputs of the transaction built: one output without change, two with it.
C32_FeeFromBuiltTransaction ==
    Built =>
        ret.result.fee = 10 + 180 * Len(ret.args.funding) + 34 * Len(ret.result.outputs)

\* C33: when the relayer's selection took two or more UTXOs for a pending
\* HTLC, create_htlc signs every input and goes on to its calls on the store
\* and the node: it does not return MismatchedInputs, and the relayer does not
\* set the HTLC Failed for it.
C33_SeveralUtxosAreSigned ==
    pc = "creation_call" /\ Len(calls["relayer"].inputs) >= 2 =>
        calls["relayer"].result # "MismatchedInputs"

\* a u64 that fits in 32 bits
FitsU32(x) == x[1] = 0 /\ x[2] = 0

\* C34: for every timelock, the lock_time of the refund transaction is
\* numerically the timelock embedded in the redeem script; a timelock that does
\* not fit in 32 bits is rejected, not truncated modulo 2^32.
C34_LockTimeIsScriptTimelock ==
    ret.call = "build_refund_tx_of_script" =>
        IF FitsU32(ret.args.timelock)
        THEN /\ ret.result.refund.err = "Ok"
             /\ u32_as_u64(ret.result.refund.lock_time) = ret.result.script_timelock
        ELSE ret.result.refund.err # "Ok"

\* of the wait_for_confirmations call: no poll so far reached the requirement
\* (a failed poll reaches nothing)
NoPollReached(polls, required) ==
    \A k \in 1..Len(polls) : polls[k] = None \/ polls[k] < required

\* C35: wait_for_confirmations makes at most max_attempts polls and returns:
\* Ok(c) at the first poll whose count c is at least the requirement and never
\* with less, ConfirmationTimeout after max_attempts polls that did not reach
\* it; a failed poll uses up an attempt and the loop goes on.
C35_WaitIsBoundedAndExact ==
    /\ [](ret.call = "wait_for_confirmations" =>
            LET polls == ret.result.polls
                required == ret.args.required_confirmations
            IN  /\ Len(polls) <= ret.args.max_attempts
                /\ ret.result.err \in {"none", "Ok", "ConfirmationTimeout"}
                /\ ret.result.err = "none" =>
                      /\ NoPollReached(polls, required)
                      /\ Len(polls) = ret.result.attempt - (IF pc = "wait_loop" THEN 1 ELSE 0)
                /\ ret.result.err = "Ok" =>
                      /\ polls # <<>>
                      /\ ret.result.confirmations = polls[Len(polls)]
                      /\ ret.result.confirmations >= required
                      /\ NoPollReached(SubSeq(polls, 1, Len(polls) - 1), required)
                /\ ret.result.err = "ConfirmationTimeout" =>
                      /\ Len(polls) = ret.args.max_attempts
                      /\ NoPollReached(polls, required))
    /\ <>(pc = "wait_done")

\* a call that returned Ok at its last attempt, after a poll that failed
C35_Witness ==
    /\ ret.call = "wait_for_confirmations"
    /\ ret.result.err = "Ok"
    /\ Len(ret.result.polls) = ret.args.max_attempts
    /\ \E k \in 1..Len(ret.result.polls) : ret.result.polls[k] = None

\* the relayer leaves its turn on the pending row at the head of the batch,
\* and the node accepted the funding transaction of that turn
FundedThisTurn ==
    /\ pc = "creation_call" /\ pc' # "creation_call"
    /\ calls["relayer"].htlc_id # 0
    /\ FundingBroadcast(calls["relayer"].htlc_id)

\* row id is returned by get_pending_htlcs_for_creation: Pending with no txid
PendingForCreation(H, id) == H[id].state = Pending /\ H[id].txid = None

\* C36: once the relayer has broadcast the funding of a row it got from
\* get_pending_htlcs_for_creation, that row is no longer Pending with a null
\* txid, so it is not returned and funded again on a later tick.
C36_FundedRowLeavesPending ==
    [][FundedThisTurn => ~PendingForCreation(htlcs', Head(batch).id)]_vars

\* the rows get_pending_htlcs_for_creation can return
PendingRows == {id \in 1..Len(htlcs) : PendingForCreation(htlcs, id)}

\* the relayer leaves its turn on a pending row, for which create_htlc
\* inserted a row
TurnInsertedRow ==
    /\ pc = "creation_call" /\ pc' # "creation_call"
    /\ calls["relayer"].htlc_id # 0

\* C37: with no new request and every funding attempt of the relayer ending,
\* in success or in failure, the rows returned by get_pending_htlcs_for_creation
\* are eventually none and stay none; a turn on a pending row never leaves a
\* new row that is Pending with a null txid.
C37_PendingRowsDrain ==
    /\ <>[](PendingRows = {})
    /\ [][TurnInsertedRow => ~PendingForCreation(htlcs', calls["relayer"].htlc_id)]_vars

\* the errors of create_htlc that come from validating, building or signing
\* the funding transaction
CreateRejections ==
    {"AmountTooSmall", "ScriptError", "InsufficientFunds", "InvalidAddress",
     "MismatchedInputs", "InvalidPrivateKey"}

\* the step is a create_htlc that returned one of those errors
CreateRejected == ret'.call = "create_htlc" /\ ret'.result \in CreateRejections

\* C38: when create_htlc fails on a validation, build or signing error, before
\* anything is broadcast, it inserts no HTLC row and no operation row, and a
\* caller's call of it leaves the HTLC rows and the operation rows as they were.
C38_RejectedCreateLeavesStore ==
    [][CreateRejected =>
          /\ ~ret'.sent
          /\ Len(htlcs') = Len(htlcs) /\ Len(ops') = Len(ops)
          /\ ret'.by = "client" => htlcs' = htlcs /\ ops' = ops]_vars

\* a create_htlc rejected at signing, with rows in the store
C38_Witness ==
    /\ ret.call = "create_htlc" /\ ret.by = "client"
    /\ ret.result \in {"MismatchedInputs", "InvalidPrivateKey"}
    /\ ret.built /\ ~ret.sent
    /\ Len(htlcs) > 0 /\ Len(ops) > 0

\* the node accepted the pre-signed redemption of HTLC id from the relayer
RedemptionBroadcast(id) == AcceptedRedemption(id) \in chain

\* the step is process_expired_htlcs calling refund_htlc for the row at the
\* head of its batch
SubmitsRefund == pc = "refunds_loop" /\ pc' = "refund_call"

\* C39: an HTLC whose pre-signed redemption the relayer broadcast successfully
\* is never afterwards submitted for refund by process_expired_htlcs, in the
\* same tick or a later one, whatever its timelock and the height.
C39_RedeemedIsNeverRefunded ==
    [][SubmitsRefund => ~RedemptionBroadcast(Head(batch).id)]_vars
====
